---- MODULE Spec2Model ----
(***************************************************************************)
(* A model of the Shop Login / Authorize widget (shop-js): the resilient   *)
(* dynamic import, the presentation mode policy, the ShopLogin reducer and *)
(* provider, the iframe postMessage helper, the Bugsnag onError filter and *)
(* the retrying OpenTelemetry exporter.                                    *)
(*                                                                         *)
(* Every subsystem has its own variables and its own specification; the    *)
(* variables of the other subsystems stay at their initial value.          *)
(***************************************************************************)
EXTENDS Integers, Sequences, FiniteSets, TLC

VARIABLES
    now,              \* the wall clock (Date.now(), timers)
    \* ---- importWithRetry (hooks/useFloating/index.ts)
    imCfg,            \* {maxRetries, retryDelay, hasSignal} of the call
    imAborted,        \* signal.aborted
    imPc,             \* "idle" | "inflight" | "delay" | "done"
    imRetryCount,     \* retryCount of the running executeWithRetry
    imRetryPath,      \* retryImportPath of the running executeWithRetry
    imNext,           \* arguments of the executeWithRetry call behind the timer
    imTimerDue,       \* time at which the pending setTimeout fires
    imAttempts,       \* number of import attempts started so far
    imLastAttempt,    \* the last attempt started: route, path, start, cause
    imLastError,      \* what the last failed attempt threw, and when
    imResult,         \* the promise returned by importWithRetry
    \* ---- ShopLoginProvider (foundation/ShopLogin)
    slProps,          \* presentationMode and textVariant props, login_hint of the page
    slState,          \* the ShopLoginState held by useReducer
    slLoadedTracked,  \* loadedTracked.current
    slAction,         \* the action of the last dispatch, as given to the reducer
    slPrev,           \* previousState of the last dispatch
    slEvents,         \* the side effects of the last dispatch, in order
    slDispatches,     \* number of dispatches so far
    slPast,           \* the types of the actions dispatched so far, in order
    \* ---- getLocalPresentationMode (ShopLogin/utils)
    pmCalls,          \* the calls evaluated so far, each with its result
    \* ---- shopLoginReducer applied twice to one state and action
    rdState,          \* the state object given to the reducer
    rdGiven,          \* its value when it was given
    rdAction,         \* the action given to the reducer
    rdFirst,          \* the state the first application returned
    rdSecond,         \* the state the second application returned
    \* ---- AuthorizeIframe / LoginIframe: postMessage
    ifComp,           \* the component: "AuthorizeIframe" or "LoginIframe"
    ifLoaded,         \* loaded of the state the component reads
    ifRendered,       \* loaded as captured by the current postMessageHelper
    ifLoadedMsgs,     \* number of 'loaded' messages received from the iframe
    ifCalls,          \* the postMessage calls made so far
    \* ---- Bugsnag onError (foundation/Bugsnag/Bugsnag.ts)
    bgFeature,        \* the feature the Bugsnag object was constructed with
    bgEvent,          \* the event handed to onError
    bgReturn,         \* what onError returned: "pending", "false", "undefined"
    bgDecorated,      \* whether device, metaData and request were set on the event
    bgNetCalls,       \* the arguments of the onNetworkError calls, in order
    bgCounters,       \* the shop_js_network_error counters sent, in order
    \* ---- ExporterWithRetries (foundation/OpenTelemetry)
    exRequest,        \* the export the caller asks for: kind, payload, options
    exDocComplete,    \* document.readyState === 'complete' (getKeepalive)
    exCalls,          \* the exportMetrics / exportLogs invocations, outermost first
    exUnhandled,      \* rejections no handler received
    \* ---- useWindoidMessageHandler (hooks)
    wdHandlers,       \* the optional handlers the props provide
    wdRef,            \* whether windoidRef.current holds a window
    wdClosed,         \* whether close() was called on the windoid
    wdRun,            \* the runs of handleWindoidMessage: message type and position
    wdLog,            \* handler calls, dispatched events and close() calls, in order
    \* ---- I18nProvider.getDefaultLanguage (foundation/I18n)
    lcInputs,         \* overrideLocale, document language, Shopify.locale, navigator.languages
    lcResult,         \* the locale getDefaultLanguage returned
    lcCounters,       \* the unsupported / invalid locale counters recorded, in order
    \* ---- I18nProvider.loadDictionary (foundation/I18n)
    ldBuildLocale,    \* process.env.BUILD_LOCALE, the initial locale state
    ldDefault,        \* what getDefaultLanguage() returns
    ldHasFeature,     \* featureName && getFeatureDictionary
    ldLocale,         \* the locale state
    ldEffectLocale,   \* the locale of the last loadDictionary effect, None before mount
    ldLoading,        \* the loading state: undefined, true or false
    ldTranslations,   \* the locales translations has an entry for
    ldPendingCallbacks, \* pendingCallbacks: the run that queued each callback
    ldTimer,          \* the pending debounced updateTranslations call, if any
    ldRuns,           \* the runs of loadDictionary
    ldNotified,       \* number of errors given to notify
    ldChanges,        \* number of overrideLocale changes so far
    \* ---- AuthorizeIframe: modal events (components/AuthorizeIframe)
    mdState,          \* modalVisible, loaded and the onModalVisibleChange prop
    mdDirty,          \* whether a render is pending
    mdStored,         \* the value usePrevious has stored
    mdDeps,           \* the dependencies of the last run of the effect
    mdRenders,        \* the renders so far: modalVisible, whether the effect ran and emitted
    mdEmitted,        \* the messages, events and callbacks emitted, in order
    \* ---- Modal / Inline: modalDismissible (components)
    dsSurface,        \* the component: "Modal" or "Inline"
    dsHasHeader,      \* whether the header with the close button is rendered
    dsVisible,        \* the visible prop of the last render
    dsVisibleSince,   \* when the surface was last rendered visible after being hidden
    dsTimer,          \* the time in ms at which the pending timer fires, if any
    dsDismissible,    \* modalDismissible of the authorize state
    dsCaptured,       \* modalDismissible as captured by the current handleDismiss
    dsDispatched,     \* the 'modalDismissible' dispatches so far
    dsDismissCalls,   \* the onDismiss calls so far
    dsAttempts,       \* number of dismiss gestures of the user so far
    dsChanges,        \* number of changes of visible so far
    \* ---- AuthorizeIframe / LoginIframe: callbackRef
    crComp,           \* the component: "AuthorizeIframe" or "LoginIframe"
    crSrc,            \* the src prop of the last render
    crAttributes,     \* the src attribute of every iframe element
    crCurrent,        \* iframeRef.current
    crCalls           \* the calls of callbackRef so far

imVars == <<imCfg, imAborted, imPc, imRetryCount, imRetryPath, imNext,
            imTimerDue, imAttempts, imLastAttempt, imLastError, imResult>>

slVars == <<slProps, slState, slLoadedTracked, slAction, slPrev, slEvents,
            slDispatches, slPast>>

pmVars == <<pmCalls>>
rdVars == <<rdState, rdGiven, rdAction, rdFirst, rdSecond>>
ifVars == <<ifComp, ifLoaded, ifRendered, ifLoadedMsgs, ifCalls>>
bgVars == <<bgFeature, bgEvent, bgReturn, bgDecorated, bgNetCalls, bgCounters>>
exVars == <<exRequest, exDocComplete, exCalls, exUnhandled>>
wdVars == <<wdHandlers, wdRef, wdClosed, wdRun, wdLog>>
lcVars == <<lcInputs, lcResult, lcCounters>>
ldVars == <<ldBuildLocale, ldDefault, ldHasFeature, ldLocale, ldEffectLocale, ldLoading, ldTranslations, ldPendingCallbacks, ldTimer, ldRuns, ldNotified, ldChanges>>
mdVars == <<mdState, mdDirty, mdStored, mdDeps, mdRenders, mdEmitted>>
dsVars == <<dsSurface, dsHasHeader, dsVisible, dsVisibleSince, dsTimer, dsDismissible, dsCaptured, dsDispatched, dsDismissCalls, dsAttempts, dsChanges>>
crVars == <<crComp, crSrc, crAttributes, crCurrent, crCalls>>

vars == <<now, imVars, slVars, pmVars, rdVars, ifVars, bgVars, exVars, wdVars, lcVars, ldVars, mdVars, dsVars, crVars>>

\* What an action of one subsystem leaves alone: the other subsystems.
ImFrame == UNCHANGED <<slVars, pmVars, rdVars, ifVars, bgVars, exVars, wdVars, lcVars, ldVars, mdVars, dsVars, crVars>>
SlFrame == UNCHANGED <<imVars, pmVars, rdVars, ifVars, bgVars, exVars, wdVars, lcVars, ldVars, mdVars, dsVars, crVars>>
PmFrame == UNCHANGED <<imVars, slVars, rdVars, ifVars, bgVars, exVars, wdVars, lcVars, ldVars, mdVars, dsVars, crVars>>
RdFrame == UNCHANGED <<imVars, slVars, pmVars, ifVars, bgVars, exVars, wdVars, lcVars, ldVars, mdVars, dsVars, crVars>>
IfFrame == UNCHANGED <<imVars, slVars, pmVars, rdVars, bgVars, exVars, wdVars, lcVars, ldVars, mdVars, dsVars, crVars>>
BgFrame == UNCHANGED <<imVars, slVars, pmVars, rdVars, ifVars, exVars, wdVars, lcVars, ldVars, mdVars, dsVars, crVars>>
ExFrame == UNCHANGED <<imVars, slVars, pmVars, rdVars, ifVars, bgVars, wdVars, lcVars, ldVars, mdVars, dsVars, crVars>>
WdFrame == UNCHANGED <<imVars, slVars, pmVars, rdVars, ifVars, bgVars, exVars, lcVars, ldVars, mdVars, dsVars, crVars>>
LcFrame == UNCHANGED <<imVars, slVars, pmVars, rdVars, ifVars, bgVars, exVars, wdVars, ldVars, mdVars, dsVars, crVars>>
LdFrame == UNCHANGED <<imVars, slVars, pmVars, rdVars, ifVars, bgVars, exVars, wdVars, lcVars, mdVars, dsVars, crVars>>
MdFrame == UNCHANGED <<imVars, slVars, pmVars, rdVars, ifVars, bgVars, exVars, wdVars, lcVars, ldVars, dsVars, crVars>>
DsFrame == UNCHANGED <<imVars, slVars, pmVars, rdVars, ifVars, bgVars, exVars, wdVars, lcVars, ldVars, mdVars, crVars>>
CrFrame == UNCHANGED <<imVars, slVars, pmVars, rdVars, ifVars, bgVars, exVars, wdVars, lcVars, ldVars, mdVars, dsVars>>

None == "none"
\* null / undefined where an object may stand
Null == [null |-> TRUE]
Undefined == "undefined"

(***************************************************************************)
(* Bounds of the model.                                                    *)
(***************************************************************************)
MaxTime == 4          \* the clock runs from 1 to MaxTime
MaxRetriesArg == 3    \* maxRetries is drawn from 0..MaxRetriesArg
MaxDelayArg == 1      \* retryDelay is drawn from 0..MaxDelayArg

MaxDispatches == 2    \* dispatches to the ShopLogin reducer in one run
MaxLifecycleDispatches == 3 \* dispatches in one run of the widget's lifecycle
MaxPostCalls == 2     \* calls of postMessage in one run
MaxLoadedMessages == 2 \* 'loaded' messages received in one run
MaxExportAttempts == 3 \* attempts of one export (the code sets no limit)
MaxRetryAfter == 2    \* retryAfter.seconds is drawn from 0..MaxRetryAfter
MaxPolicyCalls == 2   \* evaluations of getLocalPresentationMode in one run
MaxWindoidMessages == 2 \* messages the windoid handler receives in one run
MaxLanguages == 1     \* length of navigator.languages
MaxRenders == 5       \* renders of AuthorizeIframe in one run
MaxCallbackVersions == 1 \* new onModalVisibleChange props in one run
MaxVisibleChanges == 3 \* changes of the visible prop in one run
MaxDismissAttempts == 2 \* dismiss gestures of the user in one run
MaxIframeElements == 2 \* iframe elements the renderer may attach
MaxRefCalls == 3      \* calls of callbackRef in one run
MaxLoads == 3         \* runs of loadDictionary in one run of the model
MaxLocaleChanges == 1 \* changes of the overrideLocale prop

Tick ==
    /\ now < MaxTime
    /\ now' = now + 1
    /\ UNCHANGED <<imVars, slVars, pmVars, rdVars, ifVars, bgVars, exVars, wdVars, lcVars, ldVars, mdVars, dsVars, crVars>>

(***************************************************************************)
(* Error messages are sequences of tokens.  PFX is the text                *)
(* 'Failed to fetch dynamically imported module: ', GEN the text           *)
(* 'Importing a module script failed', URL an absolute URL without a t     *)
(* query parameter, URLT an absolute URL that carries a t parameter, TXT   *)
(* any other text that does not start with a URL scheme, SP white space.   *)
(***************************************************************************)
UrlTokens == {"URL", "URLT"}

\* The value of the t parameter a URLT token carries: a time before the
\* clock of the model starts.
OldStamp == 0

ImportMessages ==
    { <<"PFX", "URL">>, <<"PFX", "URLT">>, <<"PFX", "URL", "SP">>,
      <<"SP", "PFX", "URL">>, <<"TXT", "PFX", "URL">>, <<"PFX", "URL", "GEN">>,
      <<"PFX", "PFX", "URL">>, <<"PFX", "TXT">>, <<"PFX">>, <<"URL">>,
      <<"GEN">>, <<"TXT", "GEN">>, <<"PFX", "GEN">>, <<"TXT">>, <<>> }

\* What a failed attempt throws: an Error with a message, or a value that is
\* not an Error (a string, undefined, ...).
ThrownValues ==
    [isError : {TRUE}, message : ImportMessages]
        \cup { [isError |-> FALSE, message |-> <<>>] }

RECURSIVE RemoveFirst(_, _)
\* String.prototype.replace(tok, ''): drops the first occurrence only.
RemoveFirst(s, tok) ==
    IF s = <<>> THEN <<>>
    ELSE IF Head(s) = tok THEN Tail(s)
    ELSE <<Head(s)>> \o RemoveFirst(Tail(s), tok)

RECURSIVE TrimStart(_)
TrimStart(s) ==
    IF s # <<>> /\ Head(s) = "SP" THEN TrimStart(Tail(s)) ELSE s

RECURSIVE TrimEnd(_)
TrimEnd(s) ==
    IF s # <<>> /\ s[Len(s)] = "SP" THEN TrimEnd(SubSeq(s, 1, Len(s) - 1)) ELSE s

\* String.prototype.trim()
Trim(s) == TrimEnd(TrimStart(s))

Includes(s, tok) == \E i \in 1..Len(s) : s[i] = tok

\* utils.ts convertStringToUrl: new URL(url), null when it throws.  The text
\* parses when it starts with an absolute URL; what follows becomes part of
\* the URL, and t is present when some part of it carries a t parameter.
convertStringToUrl(s) ==
    IF s # <<>> /\ Head(s) \in UrlTokens
    THEN [href |-> s, t |-> IF Includes(s, "URLT") THEN {OldStamp} ELSE {}]
    ELSE Null

\* utils.ts isGenericModuleError
isGenericModuleError(error) == Includes(error.message, "GEN")

\* utils.ts extractUrlFromError
extractUrlFromError(error) ==
    convertStringToUrl(Trim(RemoveFirst(error.message, "PFX")))

\* url.searchParams.set('t', `${Date.now()}`)
SetTimestamp(url, time) == [url EXCEPT !.t = {time}]

RetriesEverything(error) ==
    IF extractUrlFromError(error) # Null THEN "url" ELSE "importer"

\* The branch of the catch block taken for an Error once retries remain:
\* lines 244-264.
RetryRoute(error) ==
    IF extractUrlFromError(error) # Null THEN "url"
    ELSE IF isGenericModuleError(error) THEN "importer"
    ELSE "throw"

OffByOneExhausted(retryCount, maxRetries) == retryCount >= maxRetries

\* line 239
RetriesExhausted(retryCount, maxRetries) == retryCount >= maxRetries - 1

NoDelay(time, retryDelay) == time

\* setTimeout(resolve, retryDelay): the time at which the timer may fire
TimerDue(time, retryDelay) == time + retryDelay

Pending == [kind |-> "pending"]
Resolved(v) == [kind |-> "resolved", value |-> v]
Rejected(e) == [kind |-> "rejected", error |-> e]

ImInit ==
    /\ imCfg \in [maxRetries : 0..MaxRetriesArg, retryDelay : 0..MaxDelayArg,
                  hasSignal : BOOLEAN]
    /\ imAborted \in {FALSE} \cup {b \in {TRUE} : imCfg.hasSignal}
    /\ imPc = "idle"
    /\ imRetryCount = 0
    /\ imRetryPath = Null
    /\ imNext = Null
    /\ imTimerDue = 0
    /\ imAttempts = 0
    /\ imLastAttempt = Null
    /\ imLastError = Null
    /\ imResult = Pending

ExecutesWhenAborted(retryCount, path, cause) ==
    /\ imPc' = "inflight"
    /\ imRetryCount' = retryCount
    /\ imRetryPath' = path
    /\ imAttempts' = imAttempts + 1
    /\ imLastAttempt' =
           [route |-> IF path # Null THEN "retryImport" ELSE "importer",
            path |-> path, startedAt |-> now, cause |-> cause]
    /\ UNCHANGED imResult

\* executeWithRetry(retryCount, retryImportPath) up to its first await:
\* lines 226-233.
ImExecute(retryCount, path, cause) ==
    IF imAborted
    THEN /\ imPc' = "done"
         /\ imResult' = Resolved(Undefined)
         /\ UNCHANGED <<imRetryCount, imRetryPath, imAttempts, imLastAttempt>>
    ELSE /\ imPc' = "inflight"
         /\ imRetryCount' = retryCount
         /\ imRetryPath' = path
         /\ imAttempts' = imAttempts + 1
         /\ imLastAttempt' =
                [route |-> IF path # Null THEN "retryImport" ELSE "importer",
                 path |-> path, startedAt |-> now, cause |-> cause]
         /\ UNCHANGED imResult

\* importWithRetry(importer, config): line 268
ImCall ==
    /\ ImFrame
    /\ imPc = "idle"
    /\ ImExecute(0, Null, Null)
    /\ UNCHANGED <<now, imCfg, imAborted, imNext, imTimerDue, imLastError>>

\* The attempt in flight resolves with the module: lines 231, 233.
ImAttemptSucceeds ==
    /\ ImFrame
    /\ imPc = "inflight"
    /\ imPc' = "done"
    /\ imResult' = Resolved("module")
    /\ UNCHANGED <<now, imCfg, imAborted, imRetryCount, imRetryPath, imNext,
                   imTimerDue, imAttempts, imLastAttempt, imLastError>>

\* The attempt in flight rejects: the catch block, lines 234-265, up to the
\* await of the timer.
ImAttemptFails ==
    /\ ImFrame
    /\ imPc = "inflight"
    /\ \E error \in ThrownValues :
        /\ imLastError' = [error |-> error, at |-> now, aborted |-> imAborted,
                           attempt |-> imAttempts]
        /\ IF ~error.isError \/ imAborted
           THEN /\ imPc' = "done"
                /\ imResult' = Resolved(Undefined)
                /\ UNCHANGED <<imNext, imTimerDue>>
           ELSE IF RetriesExhausted(imRetryCount, imCfg.maxRetries)
           THEN /\ imPc' = "done"
                /\ imResult' = Rejected(error)
                /\ UNCHANGED <<imNext, imTimerDue>>
           ELSE IF RetryRoute(error) = "url"
           THEN /\ imPc' = "delay"
                /\ imNext' = [retryCount |-> imRetryCount + 1,
                              path |-> SetTimestamp(extractUrlFromError(error), now)]
                /\ imTimerDue' = TimerDue(now, imCfg.retryDelay)
                /\ UNCHANGED imResult
           ELSE IF RetryRoute(error) = "importer"
           THEN /\ imPc' = "delay"
                /\ imNext' = [retryCount |-> imRetryCount + 1, path |-> Null]
                /\ imTimerDue' = TimerDue(now, imCfg.retryDelay)
                /\ UNCHANGED imResult
           ELSE /\ imPc' = "done"
                /\ imResult' = Rejected(error)
                /\ UNCHANGED <<imNext, imTimerDue>>
    /\ UNCHANGED <<now, imCfg, imAborted, imRetryCount, imRetryPath, imAttempts,
                   imLastAttempt>>

\* The retry timer fires: lines 251-253 and 259-261, then executeWithRetry.
ImTimerFires ==
    /\ ImFrame
    /\ imPc = "delay"
    /\ now >= imTimerDue
    /\ ImExecute(imNext.retryCount, imNext.path, imLastError)
    /\ imNext' = Null
    /\ UNCHANGED <<now, imCfg, imAborted, imTimerDue, imLastError>>

\* The caller aborts the AbortSignal it passed.
ImAbort ==
    /\ ImFrame
    /\ imCfg.hasSignal
    /\ ~imAborted
    /\ imPc # "done"
    /\ imAborted' = TRUE
    /\ UNCHANGED <<now, imCfg, imPc, imRetryCount, imRetryPath, imNext,
                   imTimerDue, imAttempts, imLastAttempt, imLastError, imResult>>

ImNext ==
    \/ ImCall
    \/ ImAttemptSucceeds
    \/ ImAttemptFails
    \/ ImTimerFires
    \/ ImAbort
    \/ Tick

ImIdle ==
    /\ imCfg = [maxRetries |-> 0, retryDelay |-> 0, hasSignal |-> FALSE]
    /\ imAborted = FALSE
    /\ imPc = "idle"
    /\ imRetryCount = 0
    /\ imRetryPath = Null
    /\ imNext = Null
    /\ imTimerDue = 0
    /\ imAttempts = 0
    /\ imLastAttempt = Null
    /\ imLastError = Null
    /\ imResult = Pending

(***************************************************************************)
(* ShopLogin: the presentation mode policy, the reducer and the provider.  *)
(***************************************************************************)
PresentationModes == {"button", "card"}

\* An optional boolean of a message payload: true, false or not given.
OptBool == {"true", "false", Undefined}

\* Boolean(x)
ToBoolean(x) == x = "true"

IgnoresDismissed(dismissed, originalPresentationMode, userMatched, userRecognized) ==
    IF ToBoolean(userMatched) THEN "card"
    ELSE IF originalPresentationMode = "button" THEN "button"
    ELSE IF userRecognized THEN "card" ELSE "button"

\* utils/getLocalPresentationMode.ts
getLocalPresentationMode(dismissed, originalPresentationMode, userMatched, userRecognized) ==
    IF ToBoolean(userMatched) /\ ~dismissed THEN "card"
    ELSE IF originalPresentationMode = "button" THEN "button"
    ELSE IF userRecognized /\ ~dismissed THEN "card" ELSE "button"

\* reducer.ts initialState
initialState ==
    [consented |-> FALSE, cookied |-> FALSE, dismissed |-> FALSE,
     footerPolicy |-> Undefined, loaded |-> FALSE,
     localPresentationMode |-> "button", loginHint |-> Undefined,
     matched |-> FALSE, mountedTimestamp |-> <<>>, parentTheme |-> "light",
     processing |-> FALSE, textVariant |-> Undefined]

\* reducer.ts createInitialState; loginHint is the login_hint parameter of the
\* page URL, undefined when absent or when the URL does not parse.
createInitialState(presentationMode, textVariant, loginHint) ==
    [initialState EXCEPT !.localPresentationMode = presentationMode,
                         !.loginHint = loginHint,
                         !.textVariant = textVariant]

IframeLoadedPayloads ==
    [consented : OptBool, footerPolicy : {Undefined, "policy"},
     loginHintMatch : OptBool, userFound : BOOLEAN]

\* ShopLoginActionInput: what components dispatch.
ShopLoginActionInputs ==
    { [type |-> "dismiss"], [type |-> "mounted"], [type |-> "resetState"],
      [type |-> "unknown"] }
    \cup [type : {"iframeLoaded"}, payload : IframeLoadedPayloads]
    \cup [type : {"setLocalPresentationMode"}, payload : PresentationModes]
    \cup [type : {"setParentTheme"}, payload : [parentTheme : {"light", "dark"}]]
    \cup [type : {"setProcessing"}, payload : BOOLEAN]
    \cup [type : {"userMatched"}, payload : [userCookieExists : BOOLEAN]]

\* reducer.ts shopLoginReducer, case 'userMatched'
ReduceUserMatched(state, action) ==
    [state EXCEPT !.cookied = action.payload.userCookieExists,
                  !.localPresentationMode =
                      IF action.payload.userCookieExists THEN "button" ELSE "card",
                  !.loginHint = Undefined,
                  !.matched = TRUE]

\* reducer.ts shopLoginReducer; time is what Date.now() returns.
shopLoginReducer(state, action, time) ==
    CASE action.type = "dismiss" ->
            [state EXCEPT !.dismissed = TRUE, !.localPresentationMode = "button"]
      [] action.type = "iframeLoaded" ->
            [state EXCEPT !.consented = ToBoolean(action.payload.consented),
                          !.cookied = action.payload.userFound,
                          !.footerPolicy = action.payload.footerPolicy,
                          !.loaded = TRUE,
                          !.localPresentationMode = action.payload.presentation,
                          !.matched = ToBoolean(action.payload.loginHintMatch)]
      [] action.type = "mounted" ->
            [state EXCEPT !.mountedTimestamp = <<time>>]
      [] action.type = "resetState" -> initialState
      [] action.type = "setLocalPresentationMode" ->
            [state EXCEPT !.localPresentationMode = action.payload]
      [] action.type = "setParentTheme" ->
            [state EXCEPT !.parentTheme = action.payload.parentTheme]
      [] action.type = "setProcessing" ->
            [state EXCEPT !.processing = action.payload]
      [] action.type = "userMatched" -> ReduceUserMatched(state, action)
      [] OTHER -> state

DomEvent(name, detail) == [kind |-> "dispatchEvent", name |-> name, detail |-> detail]
ModeChange(current, previous, reason) ==
    [kind |-> "presentationModeChange", currentMode |-> current,
     previousMode |-> previous, reason |-> reason]

\* ShopLoginProvider.processSideEffects, case 'iframeLoaded' after the 'loaded'
\* event: the load-time tracking, done while loadedTracked.current is false.
LoadTracking(action, previousState, state, time) ==
    LET cardToButton ==
            /\ previousState.localPresentationMode = "card"
            /\ state.localPresentationMode = "button"
            /\ ~action.payload.userFound
        toRecognizedButton ==
            /\ previousState.localPresentationMode = "button"
            /\ state.localPresentationMode = "button"
            /\ action.payload.userFound
        duration ==
            IF state.mountedTimestamp # <<>>
            THEN <<[kind |-> "histogram", name |-> "shop_js_iframe_load_duration",
                    value |-> time - state.mountedTimestamp[1]]>>
            ELSE <<[kind |-> "log"]>>
    IN  duration \o
        (IF cardToButton
         THEN <<ModeChange("button", "card", "user_not_recognized")>>
         ELSE IF toRecognizedButton
         THEN <<ModeChange("button", "button", "user_recognized")>>
         ELSE <<>>)

TracksEveryLoad(action, previousState, state, loadedTracked, time) ==
    CASE action.type = "iframeLoaded" ->
            <<DomEvent("loaded", [presentation |-> state.localPresentationMode,
                                  userFound |-> action.payload.userFound])>>
            \o LoadTracking(action, previousState, state, time)
      [] action.type = "userMatched" ->
            << DomEvent("shop_user_matched",
                        [presentation |-> state.localPresentationMode]),
               DomEvent("lookup_end", Null),
               ModeChange("card", "button", "email_matched") >>
      [] action.type = "dismiss" ->
            IF /\ previousState.localPresentationMode = "card"
               /\ state.localPresentationMode = "button"
            THEN <<ModeChange("button", "card", "dismissed")>>
            ELSE <<>>
      [] OTHER -> <<>>

DismissAlwaysTracked(action, previousState, state, loadedTracked, time) ==
    CASE action.type = "iframeLoaded" ->
            <<DomEvent("loaded", [presentation |-> state.localPresentationMode,
                                  userFound |-> action.payload.userFound])>>
            \o (IF loadedTracked THEN <<>>
                ELSE LoadTracking(action, previousState, state, time))
      [] action.type = "userMatched" ->
            << DomEvent("shop_user_matched",
                        [presentation |-> state.localPresentationMode]),
               DomEvent("lookup_end", Null),
               ModeChange("card", "button", "email_matched") >>
      [] action.type = "dismiss" ->
            <<ModeChange("button", "card", "dismissed")>>
      [] OTHER -> <<>>

\* ShopLoginProvider.processSideEffects: the side effects of one action, in
\* the order they are made.
processSideEffects(action, previousState, state, loadedTracked, time) ==
    CASE action.type = "iframeLoaded" ->
            <<DomEvent("loaded", [presentation |-> state.localPresentationMode,
                                  userFound |-> action.payload.userFound])>>
            \o (IF loadedTracked THEN <<>>
                ELSE LoadTracking(action, previousState, state, time))
      [] action.type = "userMatched" ->
            << DomEvent("shop_user_matched",
                        [presentation |-> state.localPresentationMode]),
               DomEvent("lookup_end", Null),
               ModeChange("card", "button", "email_matched") >>
      [] action.type = "dismiss" ->
            IF /\ previousState.localPresentationMode = "card"
               /\ state.localPresentationMode = "button"
            THEN <<ModeChange("button", "card", "dismissed")>>
            ELSE <<>>
      [] OTHER -> <<>>

ForgetsDismissed(state, action, presentationMode) ==
    IF action.type = "iframeLoaded"
    THEN [type |-> "iframeLoaded",
          payload |->
            [consented |-> action.payload.consented,
             footerPolicy |-> action.payload.footerPolicy,
             loginHintMatch |-> action.payload.loginHintMatch,
             userFound |-> action.payload.userFound,
             presentation |->
                getLocalPresentationMode(FALSE, presentationMode,
                                         Undefined, action.payload.userFound)]]
    ELSE action

\* ShopLoginProvider.reducerWithDispatchedEventing: the action handed to
\* shopLoginReducer and to processSideEffects.
EnhancedAction(state, action, presentationMode) ==
    IF action.type = "iframeLoaded"
    THEN [type |-> "iframeLoaded",
          payload |->
            [consented |-> action.payload.consented,
             footerPolicy |-> action.payload.footerPolicy,
             loginHintMatch |-> action.payload.loginHintMatch,
             userFound |-> action.payload.userFound,
             presentation |->
                getLocalPresentationMode(state.dismissed, presentationMode,
                                         Undefined, action.payload.userFound)]]
    ELSE action

\* ShopLoginProvider.reducerWithDispatchedEventing: the state it returns.
reducerWithDispatchedEventing(state, input, presentationMode, time) ==
    shopLoginReducer(state, EnhancedAction(state, input, presentationMode), time)

SlInit ==
    /\ slProps \in [presentationMode : PresentationModes,
                    textVariant : {Undefined, "branded"},
                    loginHint : {Undefined, "hint"}]
    /\ slState = createInitialState(slProps.presentationMode, slProps.textVariant,
                                    slProps.loginHint)
    /\ slLoadedTracked = FALSE
    /\ slAction = Null
    /\ slPrev = Null
    /\ slEvents = <<>>
    /\ slDispatches = 0
    /\ slPast = <<>>

SlIdle ==
    /\ slProps = [presentationMode |-> "button", textVariant |-> Undefined,
                  loginHint |-> Undefined]
    /\ slState = initialState
    /\ slLoadedTracked = FALSE
    /\ slAction = Null
    /\ slPrev = Null
    /\ slEvents = <<>>
    /\ slDispatches = 0
    /\ slPast = <<>>

\* ShopLoginProvider.reducerWithDispatchedEventing for one action.
SlReduce(input) ==
    LET action == EnhancedAction(slState, input, slProps.presentationMode)
        nextState == shopLoginReducer(slState, action, now)
    IN  /\ slPrev' = slState
        /\ slAction' = action
        /\ slState' = nextState
        /\ slEvents' = processSideEffects(action, slState, nextState,
                                          slLoadedTracked, now)
        /\ slLoadedTracked' = (slLoadedTracked \/ action.type = "iframeLoaded")
        /\ slDispatches' = slDispatches + 1
        /\ slPast' = Append(slPast, action.type)
        /\ UNCHANGED <<now, slProps>>

\* dispatch(action), for every action a component may dispatch.
SlDispatch ==
    /\ SlFrame
    /\ slDispatches < MaxDispatches
    /\ \E input \in ShopLoginActionInputs : SlReduce(input)

\* The actions that decide the presentation mode over the life of a widget:
\* the payload fields of iframeLoaded other than userFound are left out.
LifecycleActionInputs ==
    { [type |-> "dismiss"], [type |-> "mounted"], [type |-> "resetState"] }
    \cup [type : {"iframeLoaded"},
          payload : [consented : {Undefined}, footerPolicy : {Undefined},
                     loginHintMatch : {Undefined}, userFound : BOOLEAN]]
    \cup [type : {"setLocalPresentationMode"}, payload : PresentationModes]
    \cup [type : {"userMatched"}, payload : [userCookieExists : BOOLEAN]]

\* dispatch(action), for the actions of LifecycleActionInputs.
SlLifecycleDispatch ==
    /\ SlFrame
    /\ slDispatches < MaxLifecycleDispatches
    /\ \E input \in LifecycleActionInputs : SlReduce(input)

SlLifecycleNext ==
    \/ SlLifecycleDispatch
    \/ Tick

SlNext ==
    \/ SlDispatch
    \/ Tick

(***************************************************************************)
(* getLocalPresentationMode applied to every combination of its inputs.    *)
(***************************************************************************)
PolicyArgs ==
    [dismissed : BOOLEAN, originalPresentationMode : PresentationModes,
     userMatched : OptBool, userRecognized : BOOLEAN]

PmInit == pmCalls = {}
PmIdle == pmCalls = {}

PmCall ==
    /\ PmFrame
    /\ Cardinality(pmCalls) < MaxPolicyCalls
    /\ \E args \in PolicyArgs :
         pmCalls' = pmCalls \cup
            { [args |-> args,
               result |-> getLocalPresentationMode(args.dismissed,
                              args.originalPresentationMode, args.userMatched,
                              args.userRecognized)] }
    /\ UNCHANGED now

PmNext == PmCall

(***************************************************************************)
(* shopLoginReducer applied twice to the same state and action.            *)
(***************************************************************************)
\* ShopLoginAction: what reaches shopLoginReducer (iframeLoaded carries the
\* presentation computed by the provider).
ShopLoginActions ==
    (ShopLoginActionInputs \ [type : {"iframeLoaded"}, payload : IframeLoadedPayloads])
    \cup [type : {"iframeLoaded"},
          payload : [consented : OptBool, footerPolicy : {Undefined, "policy"},
                     loginHintMatch : OptBool, userFound : BOOLEAN,
                     presentation : PresentationModes]]

\* The states the reducer is probed on: every initial state, as created, once
\* dismissed and once mounted.
ReducerStates ==
    { shopLoginReducer(createInitialState(pm, tv, lh), a, 1) :
        pm \in PresentationModes, tv \in {Undefined, "branded"},
        lh \in {Undefined, "hint"},
        a \in {[type |-> "unknown"], [type |-> "dismiss"], [type |-> "mounted"]} }

RdInit ==
    /\ rdState \in ReducerStates
    /\ rdGiven = rdState
    /\ rdAction \in ShopLoginActions
    /\ rdFirst = Null
    /\ rdSecond = Null

RdIdle ==
    /\ rdState = initialState
    /\ rdGiven = initialState
    /\ rdAction = [type |-> "unknown"]
    /\ rdFirst = Null
    /\ rdSecond = Null

\* shopLoginReducer(state, action): it reads state and assigns none of its
\* fields.
RdApply ==
    /\ RdFrame
    /\ rdFirst = Null
    /\ rdFirst' = shopLoginReducer(rdState, rdAction, now)
    /\ UNCHANGED <<now, rdState, rdGiven, rdAction, rdSecond>>

RdApplyAgain ==
    /\ RdFrame
    /\ rdFirst # Null
    /\ rdSecond = Null
    /\ rdSecond' = shopLoginReducer(rdState, rdAction, now)
    /\ UNCHANGED <<now, rdState, rdGiven, rdAction, rdFirst>>

RdNext ==
    \/ RdApply
    \/ RdApplyAgain
    \/ Tick

(***************************************************************************)
(* AuthorizeIframe and LoginIframe: postMessage, deferred until 'loaded'.  *)
(***************************************************************************)
IframeComponents == {"AuthorizeIframe", "LoginIframe"}
PayEvents == {"sheetmodalopened", "sheetmodalclosed"}

\* The options argument of postMessage: not given, or {afterLoaded} with
\* afterLoaded true, false or not given.
PostMessageOptions == {"noOptions"} \cup OptBool

\* AuthorizeIframe: {afterLoaded = false}: IframePostMessageOptions = {}
\* LoginIframe: Boolean(options?.afterLoaded)
AfterLoaded(comp, options) ==
    IF comp = "AuthorizeIframe"
    THEN (IF options \in {"noOptions", Undefined} THEN FALSE ELSE ToBoolean(options))
    ELSE (IF options = "noOptions" THEN FALSE ELSE ToBoolean(options))

NeverWaits(afterLoaded, loaded) == FALSE

\* postMessageHelper: if (afterLoaded && !loaded) await waitForMessage('loaded')
MustWaitForLoaded(afterLoaded, loaded) == afterLoaded /\ ~loaded

\* useAuthorizeEventListener.waitForMessage('loaded'): the promise resolves
\* when the next 'loaded' message arrives from the iframe.
WaitForMessageResolved(call) ==
    IF call.status = "waiting" THEN [call EXCEPT !.status = "ready"] ELSE call

\* postMessage({contentWindow: iframeRef.current?.contentWindow, event})
Post(call, loadedMsgs) ==
    [call EXCEPT !.status = "posted", !.postedEvent = call.event,
                 !.msgsAtPost = loadedMsgs]

IfInit ==
    /\ ifComp \in IframeComponents
    /\ ifLoaded = FALSE
    /\ ifRendered = FALSE
    /\ ifLoadedMsgs = 0
    /\ ifCalls = <<>>

IfIdle ==
    /\ ifComp = "AuthorizeIframe"
    /\ ifLoaded = FALSE
    /\ ifRendered = FALSE
    /\ ifLoadedMsgs = 0
    /\ ifCalls = <<>>

\* iframeRef.current.postMessage(event, options): postMessageHelper up to its
\* await, or to its end when it does not wait.
IfPostMessage ==
    /\ IfFrame
    /\ Len(ifCalls) < MaxPostCalls
    /\ \E event \in PayEvents, options \in PostMessageOptions :
         LET call == [event |-> event, options |-> options,
                      loaded |-> ifRendered, status |-> "waiting",
                      postedEvent |-> None, msgsAtCall |-> ifLoadedMsgs,
                      msgsAtPost |-> ifLoadedMsgs]
         IN  ifCalls' = Append(ifCalls,
                 IF MustWaitForLoaded(AfterLoaded(ifComp, options), ifRendered)
                 THEN call
                 ELSE Post(call, ifLoadedMsgs))
    /\ UNCHANGED <<now, ifComp, ifLoaded, ifRendered, ifLoadedMsgs>>

\* A 'loaded' message arrives from the iframe: onLoaded dispatches 'loaded'
\* (AuthorizeIframe) or 'iframeLoaded' (LoginIframe), and the promises of
\* waitForMessage('loaded') resolve.
IfLoadedMessage ==
    /\ IfFrame
    /\ ifLoadedMsgs < MaxLoadedMessages
    /\ ifLoadedMsgs' = ifLoadedMsgs + 1
    /\ ifLoaded' = TRUE
    /\ ifCalls' = [i \in DOMAIN ifCalls |-> WaitForMessageResolved(ifCalls[i])]
    /\ UNCHANGED <<now, ifComp, ifRendered>>

\* postMessageHelper resumes after its await and posts.
IfResume ==
    /\ IfFrame
    /\ \E i \in DOMAIN ifCalls :
         /\ ifCalls[i].status = "ready"
         /\ ifCalls' = [ifCalls EXCEPT ![i] = Post(ifCalls[i], ifLoadedMsgs)]
    /\ UNCHANGED <<now, ifComp, ifLoaded, ifRendered, ifLoadedMsgs>>

\* The iframe unloads (AuthorizeIframe onUnloaded dispatches 'reset') or the
\* ShopLogin state is reset: loaded is false again.
IfReset ==
    /\ IfFrame
    /\ ifLoaded
    /\ ifLoaded' = FALSE
    /\ UNCHANGED <<now, ifComp, ifRendered, ifLoadedMsgs, ifCalls>>

\* The component renders again: useCallback makes a postMessageHelper that
\* captures the current loaded, and useImperativeHandle publishes it.
IfRender ==
    /\ IfFrame
    /\ ifRendered # ifLoaded
    /\ ifRendered' = ifLoaded
    /\ UNCHANGED <<now, ifComp, ifLoaded, ifLoadedMsgs, ifCalls>>

IfNext ==
    \/ IfPostMessage
    \/ IfLoadedMessage
    \/ IfResume
    \/ IfReset
    \/ IfRender

(***************************************************************************)
(* Bugsnag: the onError filter and the network error counter.              *)
(*                                                                         *)
(* The text of a message is a sequence of tokens, one per marker the       *)
(* filter looks for, and OTHER for any other text.                         *)
(***************************************************************************)
MONORAIL_NETWORK_ERROR_BACKPRESSURE_MARKER == "Backpressure applied"
MONORAIL_NETWORK_ERROR_MARKER ==
    "A network failure may have prevented the request from completing"
UNACTIONABLE_NETWORK_ERRORS ==
    {"Load failed", "Failed to fetch", "when attempting to fetch resource"}
DYNAMIC_IMPORT_ERRORS ==
    {"Failed to fetch dynamically imported module",
     "Importing a module script failed"}
SANDBOXED_COOKIE_ERROR_MARKER ==
    "Failed to read the 'cookie' property from 'Document'"
SANDBOXED_MESSAGE_MARKER == "sandboxed"
CROSS_ORIGIN_FRAME_ERROR_MARKER == "Blocked a frame with origin"
CROSS_ORIGIN_FRAME_ACCESS_MARKER == "from accessing a cross-origin frame"
SHOP_PAY_PAYMENT_REQUEST_FEATURE_ALLOWLIST ==
    {"ShopPayPaymentRequest", "ShopPayPaymentRequestButton",
     "ShopPayPaymentRequestLogin"}
UNACTIONABLE_ERROR_CLASSES ==
    {"NotFoundError", "NotSupportedError", "ReferenceError", "SyntaxError",
     "TypeError"}

MessageTokens ==
    {MONORAIL_NETWORK_ERROR_BACKPRESSURE_MARKER, MONORAIL_NETWORK_ERROR_MARKER,
     SANDBOXED_COOKIE_ERROR_MARKER, SANDBOXED_MESSAGE_MARKER,
     CROSS_ORIGIN_FRAME_ERROR_MARKER, CROSS_ORIGIN_FRAME_ACCESS_MARKER, "OTHER"}
    \cup UNACTIONABLE_NETWORK_ERRORS \cup DYNAMIC_IMPORT_ERRORS

\* Whether the text of one token contains the text of a marker.
TokenContains(token, marker) ==
    \/ token = marker
    \/ /\ token = "Failed to fetch dynamically imported module"
       /\ marker = "Failed to fetch"

\* message?.includes(marker): undefined (falsy) when there is no message
MessageIncludes(message, marker) ==
    /\ message.defined
    /\ \E i \in 1..Len(message.text) : TokenContains(message.text[i], marker)

BugsnagMessages ==
    { [defined |-> FALSE, text |-> <<>>] }
    \cup [defined : {TRUE},
          text : {<<>>} \cup {<<a>> : a \in MessageTokens}
                        \cup {<<a, b>> : a \in MessageTokens, b \in MessageTokens}]

BugsnagExceptions ==
    [errorClass : {"NetworkError", "SecurityError", "TypeError", "SyntaxError",
                   "Error"},
     message : BugsnagMessages,
     stacktrace : { <<>>, <<[inProject |-> FALSE]>>, <<[inProject |-> TRUE]>>,
                    <<[inProject |-> FALSE], [inProject |-> TRUE]>> }]

\* event.exceptions: none, one, or one followed by an in-project network error
BugsnagEvents ==
    { <<>> } \cup { <<e>> : e \in BugsnagExceptions }
    \cup { <<e, [errorClass |-> "NetworkError",
                 message |-> [defined |-> TRUE, text |-> <<"Load failed">>],
                 stacktrace |-> <<[inProject |-> TRUE]>>]>> :
             e \in { x \in BugsnagExceptions : x.stacktrace = <<>> } }

BugsnagFeatures ==
    {Undefined, "ShopPayPaymentRequest", "ShopPayPaymentRequestLogin", "ShopLogin"}

\* _isMonorailNetworkError
isMonorailNetworkError(message) ==
    \/ MessageIncludes(message, MONORAIL_NETWORK_ERROR_MARKER)
    \/ MessageIncludes(message, MONORAIL_NETWORK_ERROR_BACKPRESSURE_MARKER)

IgnoresFrameErrorsEverywhere(exception, feature) ==
    LET isSandboxedCookieError ==
            /\ exception.errorClass = "SecurityError"
            /\ MessageIncludes(exception.message, SANDBOXED_COOKIE_ERROR_MARKER)
            /\ MessageIncludes(exception.message, SANDBOXED_MESSAGE_MARKER)
        isCrossOriginFrameAccessError ==
            /\ exception.errorClass = "SecurityError"
            /\ MessageIncludes(exception.message, CROSS_ORIGIN_FRAME_ERROR_MARKER)
            /\ MessageIncludes(exception.message, CROSS_ORIGIN_FRAME_ACCESS_MARKER)
        isInProject ==
            \E i \in 1..Len(exception.stacktrace) : exception.stacktrace[i].inProject
    IN  \/ ~isInProject
        \/ isSandboxedCookieError
        \/ isCrossOriginFrameAccessError

\* isIgnorable(exception, feature)
isIgnorable(exception, feature) ==
    LET isSandboxedCookieError ==
            /\ exception.errorClass = "SecurityError"
            /\ MessageIncludes(exception.message, SANDBOXED_COOKIE_ERROR_MARKER)
            /\ MessageIncludes(exception.message, SANDBOXED_MESSAGE_MARKER)
        isCrossOriginFrameAccessError ==
            /\ exception.errorClass = "SecurityError"
            /\ MessageIncludes(exception.message, CROSS_ORIGIN_FRAME_ERROR_MARKER)
            /\ MessageIncludes(exception.message, CROSS_ORIGIN_FRAME_ACCESS_MARKER)
        isShopPayPaymentRequestFeature ==
            /\ feature # Undefined
            /\ feature \in SHOP_PAY_PAYMENT_REQUEST_FEATURE_ALLOWLIST
        isInProject ==
            \E i \in 1..Len(exception.stacktrace) : exception.stacktrace[i].inProject
    IN  \/ ~isInProject
        \/ isSandboxedCookieError
        \/ (isCrossOriginFrameAccessError /\ isShopPayPaymentRequestFeature)

\* isUnactionable
isUnactionable(exception) == exception.errorClass \in UNACTIONABLE_ERROR_CLASSES

OnlyNetworkErrorClass(exception) == exception.errorClass = "NetworkError"

\* isNetworkError
isNetworkError(exception) ==
    \/ exception.errorClass = "NetworkError"
    \/ \E networkMessage \in UNACTIONABLE_NETWORK_ERRORS :
           MessageIncludes(exception.message, networkMessage)
    \/ isMonorailNetworkError(exception.message)

\* isDynamicImportError
isDynamicImportError(exception) ==
    \E importErrorMessage \in DYNAMIC_IMPORT_ERRORS :
        MessageIncludes(exception.message, importErrorMessage)

NetworkCheckedFirst(exception) ==
    IF isNetworkError(exception) THEN <<Undefined>>
    ELSE IF isDynamicImportError(exception) THEN <<"DynamicImportError">>
    ELSE <<>>

\* handleCreateBugsnagParamsError, lines 172-182: the onNetworkError call made
\* for an exception that is neither ignorable nor unactionable, as the
\* sequence of its arguments (empty when no call is made).
NetworkErrorCall(exception) ==
    IF isDynamicImportError(exception) THEN <<"DynamicImportError">>
    ELSE IF isNetworkError(exception) THEN <<Undefined>>
    ELSE <<>>

\* handleCreateBugsnagParamsError: what onError returns and the onNetworkError
\* calls it makes.
handleCreateBugsnagParamsError(event, feature) ==
    IF event = <<>> THEN [return |-> "false", calls |-> <<>>]
    ELSE LET exception == event[1] IN
         IF isIgnorable(exception, feature)
         THEN [return |-> "false", calls |-> <<>>]
         ELSE IF isUnactionable(exception)
         THEN [return |-> "false", calls |-> <<>>]
         ELSE IF NetworkErrorCall(exception) # <<>>
         THEN [return |-> "false", calls |-> NetworkErrorCall(exception)]
         ELSE [return |-> Undefined, calls |-> <<>>]

\* Bugsnag.handleNetworkError(errorType = 'NetworkError'): the counter sent
handleNetworkError(feature, errorType) ==
    [name |-> "shop_js_network_error",
     feature |-> IF feature = Undefined THEN "" ELSE feature,
     error |-> IF errorType = Undefined THEN "NetworkError" ELSE errorType]

BgInit ==
    /\ bgFeature \in BugsnagFeatures
    /\ bgEvent \in BugsnagEvents
    /\ bgReturn = "pending"
    /\ bgDecorated = FALSE
    /\ bgNetCalls = <<>>
    /\ bgCounters = <<>>

BgIdle ==
    /\ bgFeature = Undefined
    /\ bgEvent = <<>>
    /\ bgReturn = "pending"
    /\ bgDecorated = FALSE
    /\ bgNetCalls = <<>>
    /\ bgCounters = <<>>

\* params.onError(event), with onNetworkError bound to handleNetworkError
BgOnError ==
    /\ BgFrame
    /\ bgReturn = "pending"
    /\ LET r == handleCreateBugsnagParamsError(bgEvent, bgFeature) IN
         /\ bgReturn' = r.return
         /\ bgNetCalls' = r.calls
         /\ bgCounters' = [i \in DOMAIN r.calls |->
                              handleNetworkError(bgFeature, r.calls[i])]
         /\ bgDecorated' = (r.return = Undefined)
    /\ UNCHANGED <<now, bgFeature, bgEvent>>

BgNext == BgOnError

(***************************************************************************)
(* ExporterWithRetries.  In this subsystem the clock counts seconds.       *)
(***************************************************************************)
MillisPerSecond == 1000

ExportRequests ==
    [kind : {"metrics", "logs"}, payload : {"batch1", "batch2"},
     options : [headers : {"h1"}, keepalive : OptBool]]

\* What the wrapped exporter rejects with: an OpenTelemetryClientError whose
\* metadata carries retryAfter, one without retryAfter (with or without
\* metadata), or another error.
ExportErrors ==
    [class : {"OpenTelemetryClientError"}, metadata : {TRUE},
     retryAfter : {<<[seconds |-> sec]>> : sec \in 0..MaxRetryAfter}]
    \cup [class : {"OpenTelemetryClientError"}, metadata : BOOLEAN,
          retryAfter : {<<>>}]
    \cup [class : {"Error"}, metadata : {FALSE}, retryAfter : {<<>>}]

RetryAfterDefaulted(error) ==
    IF error.retryAfter # <<>> THEN error.retryAfter ELSE <<[seconds |-> 0]>>

\* error instanceof OpenTelemetryClientError && error.metadata?.retryAfter
RetryAfterOf(error) ==
    IF error.class = "OpenTelemetryClientError" /\ error.metadata
    THEN error.retryAfter ELSE <<>>

SecondsAsMillis(seconds) == seconds

\* retryAfter.seconds * 1_000
RetryDelayMillis(seconds) == seconds * MillisPerSecond

\* {...options, keepalive: this.#getKeepalive()}
PassedOptions(options, keepalive) ==
    [options EXCEPT !.keepalive = IF keepalive THEN "true" ELSE "false"]

\* exportMetrics(metrics, options) / exportLogs(logs, options) up to the await
\* of the wrapped exporter.
NewExport(request, keepalive, time) ==
    [kind |-> request.kind, payload |-> request.payload,
     options |-> request.options,
     passed |-> PassedOptions(request.options, keepalive),
     startedAt |-> time, status |-> "running", error |-> Null,
     failedAt |-> 0, dueMillis |-> 0]

\* Every invocation awaits the one it started with .finally(resolve) and then
\* returns: once the innermost settles, all outer ones resolve.
SettleOuter(calls) ==
    [i \in DOMAIN calls |->
        IF i < Len(calls) THEN [calls[i] EXCEPT !.status = "resolved"]
        ELSE calls[i]]

ExInit ==
    /\ exRequest \in ExportRequests
    /\ exDocComplete \in BOOLEAN
    /\ exCalls = <<>>
    /\ exUnhandled = 0

ExIdle ==
    /\ exRequest = [kind |-> "metrics", payload |-> "batch1",
                    options |-> [headers |-> "h1", keepalive |-> Undefined]]
    /\ exDocComplete = FALSE
    /\ exCalls = <<>>
    /\ exUnhandled = 0

\* The client calls exporter.exportMetrics / exportLogs.
ExCall ==
    /\ ExFrame
    /\ exCalls = <<>>
    /\ exCalls' = <<NewExport(exRequest, exDocComplete, now)>>
    /\ UNCHANGED <<now, exRequest, exDocComplete, exUnhandled>>

\* The wrapped exporter resolves.
ExAttemptSucceeds ==
    /\ ExFrame
    /\ exCalls # <<>>
    /\ exCalls[Len(exCalls)].status = "running"
    /\ exCalls' = SettleOuter([exCalls EXCEPT ![Len(exCalls)].status = "resolved"])
    /\ UNCHANGED <<now, exRequest, exDocComplete, exUnhandled>>

\* The wrapped exporter rejects: the catch block.
ExAttemptFails ==
    /\ ExFrame
    /\ exCalls # <<>>
    /\ exCalls[Len(exCalls)].status = "running"
    /\ \E error \in ExportErrors :
         LET n == Len(exCalls)
             retryAfter == RetryAfterOf(error)
         IN  IF retryAfter # <<>>
             THEN /\ n < MaxExportAttempts
                  /\ exCalls' = [exCalls EXCEPT ![n] =
                        [@ EXCEPT !.status = "waiting", !.error = error,
                                  !.failedAt = now,
                                  !.dueMillis = now * MillisPerSecond
                                      + RetryDelayMillis(retryAfter[1].seconds)]]
                  /\ UNCHANGED exUnhandled
             ELSE /\ exCalls' = SettleOuter([exCalls EXCEPT ![n] =
                        [@ EXCEPT !.status = "rejected", !.error = error,
                                  !.failedAt = now]])
                  \* the promise of .finally(resolve) rejects in the timer callback
                  /\ exUnhandled' = IF n > 1 THEN exUnhandled + 1 ELSE exUnhandled
    /\ UNCHANGED <<now, exRequest, exDocComplete>>

\* The timer of a retry fires: this.exportMetrics(metrics, options)
ExTimerFires ==
    /\ ExFrame
    /\ exCalls # <<>>
    /\ exCalls[Len(exCalls)].status = "waiting"
    /\ now * MillisPerSecond >= exCalls[Len(exCalls)].dueMillis
    /\ LET n == Len(exCalls) IN
         exCalls' = Append([exCalls EXCEPT ![n].status = "retrying"],
                           NewExport([kind |-> exCalls[n].kind,
                                      payload |-> exCalls[n].payload,
                                      options |-> exCalls[n].options],
                                     exDocComplete, now))
    /\ UNCHANGED <<now, exRequest, exDocComplete, exUnhandled>>

\* The page finishes loading: document.readyState becomes 'complete'.
ExPageLoaded ==
    /\ ExFrame
    /\ ~exDocComplete
    /\ exDocComplete' = TRUE
    /\ UNCHANGED <<now, exRequest, exCalls, exUnhandled>>

ExNext ==
    \/ ExCall
    \/ ExAttemptSucceeds
    \/ ExAttemptFails
    \/ ExTimerFires
    \/ ExPageLoaded
    \/ Tick

(***************************************************************************)
(* useWindoidMessageHandler: every 'message' event starts one run of the   *)
(* async handleWindoidMessage; runs interleave at their await.             *)
(***************************************************************************)
WindoidMessageTypes ==
    {"completed", "custom_flow_side_effect", "error", "windoidopened", "close",
     "windoidclosed", "prequal_buyer_upsert_successful", "unknown"}

\* The handlers the props may leave out (handleComplete is required).
OptionalHandlers ==
    {"handleClose", "handleError", "handleOpen", "handleCustomFlowSideEffect"}

\* How a handler that is called behaves: it returns a value at once, throws
\* at once, or returns a promise that settles later.
HandlerBehaviours == {"returns", "throws", "pending"}

\* The props of the model: every optional handler is given in two of them
\* and left out in the other two.
WindoidProps ==
    { {}, {"handleError", "handleOpen"},
      {"handleClose", "handleCustomFlowSideEffect"}, OptionalHandlers }

\* The handler each case of the switch awaits.
HandlerOf(type) ==
    CASE type = "completed" -> "handleComplete"
      [] type = "custom_flow_side_effect" -> "handleCustomFlowSideEffect"
      [] type = "error" -> "handleError"
      [] type = "windoidopened" -> "handleOpen"
      [] type \in {"close", "windoidclosed"} -> "handleClose"
      [] OTHER -> None

DispatchStep(name) == [step |-> "dispatch", name |-> name]
CloseStep == [step |-> "close", name |-> "windoid"]

\* What a case does before its await (all of it, for a case without await).
StepsBeforeAwait(type) ==
    CASE type = "windoidopened" -> <<DispatchStep("windoidopened")>>
      [] type \in {"close", "windoidclosed"} -> <<DispatchStep("windoidclosed")>>
      [] type = "prequal_buyer_upsert_successful" ->
            <<CloseStep, DispatchStep("buyerOnboardingSuccess")>>
      [] OTHER -> <<>>

ClosesFirst(type) ==
    CASE type = "completed" -> <<CloseStep, DispatchStep("completed")>>
      [] type = "error" -> <<CloseStep, DispatchStep("error")>>
      [] type \in {"close", "windoidclosed"} -> <<CloseStep>>
      [] OTHER -> <<>>

\* What a case does once the awaited handler has finished.
StepsAfterAwait(type) ==
    CASE type = "completed" -> <<DispatchStep("completed"), CloseStep>>
      [] type = "error" -> <<DispatchStep("error"), CloseStep>>
      [] type \in {"close", "windoidclosed"} -> <<CloseStep>>
      [] OTHER -> <<>>

\* windoidRef.current?.close() does nothing while the ref is empty.
Performed(steps, msg, refSet) ==
    LET kept == SelectSeq(steps, LAMBDA st : st.step # "close" \/ refSet)
    IN  [k \in DOMAIN kept |->
            [msg |-> msg, step |-> kept[k].step, name |-> kept[k].name]]

HandlerStep(msg, step, name) == <<[msg |-> msg, step |-> step, name |-> name]>>

Closes(steps, refSet) ==
    refSet /\ \E k \in DOMAIN steps : steps[k].step = "close"

WdInit ==
    /\ wdHandlers \in WindoidProps
    /\ wdRef \in BOOLEAN
    /\ wdClosed = FALSE
    /\ wdRun = <<>>
    /\ wdLog = <<>>

WdIdle ==
    /\ wdHandlers = {}
    /\ wdRef = FALSE
    /\ wdClosed = FALSE
    /\ wdRun = <<>>
    /\ wdLog = <<>>

\* A message arrives: handleWindoidMessage runs up to its await.
WdMessage ==
    /\ WdFrame
    /\ Len(wdRun) < MaxWindoidMessages
    /\ \E type \in WindoidMessageTypes, behaviour \in HandlerBehaviours :
         LET i == Len(wdRun) + 1
             h == HandlerOf(type)
             before == StepsBeforeAwait(type)
             present == h = "handleComplete" \/ h \in wdHandlers
             called == IF ~present THEN <<>>
                       ELSE CASE behaviour = "returns" ->
                                   HandlerStep(i, "call", h) \o HandlerStep(i, "return", h)
                              [] behaviour = "throws" ->
                                   HandlerStep(i, "call", h) \o HandlerStep(i, "throw", h)
                              [] OTHER -> HandlerStep(i, "call", h)
             pc == IF h = None THEN "done"
                   ELSE IF ~present THEN "awaiting"
                   ELSE CASE behaviour = "returns" -> "awaiting"
                          [] behaviour = "throws" -> "rejected"
                          [] OTHER -> "pending"
         IN  /\ (~present => behaviour = "returns")
             /\ wdRun' = Append(wdRun, [type |-> type, pc |-> pc])
             /\ wdLog' = wdLog \o Performed(before, i, wdRef) \o called
             /\ wdClosed' = (wdClosed \/ Closes(before, wdRef))
    /\ UNCHANGED <<now, wdHandlers, wdRef>>

\* The promise a handler returned settles.
WdHandlerSettles ==
    /\ WdFrame
    /\ \E i \in DOMAIN wdRun, fulfilled \in BOOLEAN :
         /\ wdRun[i].pc = "pending"
         /\ wdRun' = [wdRun EXCEPT ![i].pc =
                          IF fulfilled THEN "awaiting" ELSE "rejected"]
         /\ wdLog' = wdLog \o HandlerStep(i, IF fulfilled THEN "return" ELSE "throw",
                                          HandlerOf(wdRun[i].type))
    /\ UNCHANGED <<now, wdHandlers, wdRef, wdClosed>>

\* The run continues after its await, to the break.
WdContinue ==
    /\ WdFrame
    /\ \E i \in DOMAIN wdRun :
         /\ wdRun[i].pc = "awaiting"
         /\ LET after == StepsAfterAwait(wdRun[i].type)
            IN  /\ wdLog' = wdLog \o Performed(after, i, wdRef)
                /\ wdClosed' = (wdClosed \/ Closes(after, wdRef))
         /\ wdRun' = [wdRun EXCEPT ![i].pc = "done"]
    /\ UNCHANGED <<now, wdHandlers, wdRef>>

WdNext ==
    \/ WdMessage
    \/ WdHandlerSettles
    \/ WdContinue

(***************************************************************************)
(* I18nProvider.getDefaultLanguage.  Locale strings of the model: 'fr' and *)
(* 'pt-BR' are supported as they stand, 'en-GB' is supported through its   *)
(* language, 'pt-PT' is well formed but unsupported, 'en_US' is not a      *)
(* language tag, '' is the empty string.                                   *)
(***************************************************************************)
LocaleStrings == {"fr", "pt-BR", "en-GB", "pt-PT", "en_US", ""}

\* SUPPORTED_LOCALES of ./context, as far as the model's strings go.
SUPPORTED_LOCALES == {"en", "fr", "pt-BR"}

isSupportedLocale(locale) == locale \in SUPPORTED_LOCALES

\* Whether new Intl.Locale(tag) returns (it throws a RangeError otherwise).
IntlLocaleParses(tag) == tag \in {"fr", "en", "en-GB", "pt-BR", "pt-PT"}

\* new Intl.Locale(tag).language
IntlLocaleLanguage(tag) ==
    CASE tag = "fr" -> "fr"
      [] tag \in {"en", "en-GB"} -> "en"
      [] tag \in {"pt-BR", "pt-PT"} -> "pt"
      [] OTHER -> ""

Truthy(locale) == locale # Undefined /\ locale # ""

NavigatorFirst(inputs) ==
    SelectSeq(inputs.languages
                  \o <<inputs.overrideLocale, inputs.documentLang, inputs.shopifyLocale>>,
              Truthy)

\* [overrideLocale, documentElement.lang, Shopify?.locale, ...languages]
\*     .filter((locale) => locale)
PotentialLocales(inputs) ==
    SelectSeq(<<inputs.overrideLocale, inputs.documentLang, inputs.shopifyLocale>>
                  \o inputs.languages,
              Truthy)

Counter(name, locale) == [name |-> name, locale |-> locale]

RECURSIVE SearchLocales(_, _)
\* The for loop over potentialLocales: the result (Undefined when the loop
\* ends without one) and the counters recorded on the way.
SearchLocales(candidates, counters) ==
    IF candidates = <<>> THEN [result |-> Undefined, counters |-> counters]
    ELSE LET localeCandidate == Head(candidates)
             language == IntlLocaleLanguage(localeCandidate)
         IN  IF isSupportedLocale(localeCandidate)
             THEN [result |-> localeCandidate, counters |-> counters]
             ELSE IF ~IntlLocaleParses(localeCandidate)
             THEN SearchLocales(Tail(candidates),
                      Append(counters,
                             Counter("shop_js_invalid_locale", localeCandidate)))
             ELSE IF language # "" /\ isSupportedLocale(language)
             THEN [result |-> language, counters |-> counters]
             ELSE SearchLocales(Tail(candidates),
                      Append(counters,
                             Counter("shop_js_unsupported_locale", localeCandidate)))

getDefaultLanguage(inputs) ==
    LET found == SearchLocales(PotentialLocales(inputs), <<>>)
    IN  [result |-> IF found.result # Undefined THEN found.result ELSE "en",
         counters |-> found.counters]

RECURSIVE SeqsUpTo(_, _)
SeqsUpTo(S, n) ==
    IF n = 0 THEN {<<>>}
    ELSE LET shorter == SeqsUpTo(S, n - 1)
         IN  shorter \cup {Append(s, x) : s \in shorter, x \in S}

LocaleInputs ==
    [overrideLocale : (LocaleStrings \ {""}) \cup {Undefined},
     documentLang : LocaleStrings,
     shopifyLocale : LocaleStrings \cup {Undefined},
     languages : SeqsUpTo(LocaleStrings \ {""}, MaxLanguages)]

LcInit ==
    /\ lcInputs \in LocaleInputs
    /\ lcResult = Undefined
    /\ lcCounters = <<>>

LcIdle ==
    /\ lcInputs = [overrideLocale |-> Undefined, documentLang |-> "",
                   shopifyLocale |-> Undefined, languages |-> <<>>]
    /\ lcResult = Undefined
    /\ lcCounters = <<>>

\* The effect that calls getDefaultLanguage() and setLocale(defaultLanguage).
LcGetDefaultLanguage ==
    /\ LcFrame
    /\ lcResult = Undefined
    /\ lcResult' = getDefaultLanguage(lcInputs).result
    /\ lcCounters' = getDefaultLanguage(lcInputs).counters
    /\ UNCHANGED <<now, lcInputs>>

LcNext ==
    \/ LcGetDefaultLanguage

(***************************************************************************)
(* I18nProvider.loadDictionary.  pendingCallbacks, pendingTranslations and *)
(* translations are module-level; a run of loadDictionary is not cancelled *)
(* when the locale changes.  importWithRetry resolves with the module,     *)
(* rejects with an Error, or resolves undefined when the importer threw a  *)
(* value that is not an Error.                                             *)
(***************************************************************************)
DictionaryLocales == {"en", "fr"}

\* How the import of the shared dictionary (a dynamic import()) ends.
SharedOutcomes == {"module", "rejected"}

\* How importWithRetry(async () => getFeatureDictionary(locale)) ends.
FeatureOutcomes == {"dictionary", "rejected", "nonErrorThrown"}

NewRun(locale, pc) ==
    [locale |-> locale, pc |-> pc, failure |-> None, queued |-> FALSE,
     switched |-> FALSE, shown |-> FALSE]

\* pendingCallbacks.push(() => setLoading(false));
\* debouncedUpdateTranslations(locale)
FinishRun(run) == [run EXCEPT !.pc = "done", !.queued = TRUE]

\* The catch of loadDictionary for a HandledTranslationFetchError.
FailRun(run, failure) ==
    [run EXCEPT !.pc = "failed", !.failure = failure, !.switched = TRUE]

\* Non-English failures are rethrown as HandledTranslationFetchError; for
\* 'en' the error is notified and the run goes on.
Rethrown(locale) == locale # "en"

LdInit ==
    /\ ldBuildLocale \in DictionaryLocales \cup {Undefined}
    /\ ldDefault \in DictionaryLocales
    /\ ldHasFeature \in BOOLEAN
    /\ ldLocale = ldBuildLocale
    /\ ldEffectLocale = None
    /\ ldLoading = Undefined
    /\ ldTranslations = {}
    /\ ldPendingCallbacks = <<>>
    /\ ldTimer = <<>>
    /\ ldRuns = <<>>
    /\ ldNotified = 0
    /\ ldChanges = 0

LdIdle ==
    /\ ldBuildLocale = Undefined
    /\ ldDefault = "en"
    /\ ldHasFeature = FALSE
    /\ ldLocale = Undefined
    /\ ldEffectLocale = None
    /\ ldLoading = Undefined
    /\ ldTranslations = {}
    /\ ldPendingCallbacks = <<>>
    /\ ldTimer = <<>>
    /\ ldRuns = <<>>
    /\ ldNotified = 0
    /\ ldChanges = 0

\* loadDictionary() up to its first await, for the locale of the render.
LdStart(locale) ==
    IF locale \notin DictionaryLocales
    THEN UNCHANGED <<ldLoading, ldPendingCallbacks, ldTimer, ldRuns>>
    ELSE IF locale \notin ldTranslations
    THEN /\ ldLoading' = "true"
         /\ ldRuns' = Append(ldRuns, NewRun(locale, "shared"))
         /\ UNCHANGED <<ldPendingCallbacks, ldTimer>>
    ELSE IF ldHasFeature
    THEN /\ ldLoading' = "true"
         /\ ldRuns' = Append(ldRuns, NewRun(locale, "feature"))
         /\ UNCHANGED <<ldPendingCallbacks, ldTimer>>
    ELSE /\ ldRuns' = Append(ldRuns, FinishRun(NewRun(locale, "done")))
         /\ ldPendingCallbacks' = Append(ldPendingCallbacks, Len(ldRuns) + 1)
         /\ ldTimer' = <<locale>>
         /\ UNCHANGED ldLoading

\* The effects of the first render: setLocale(getDefaultLanguage()), then
\* loadDictionary() of that render, whose locale is the build locale.
LdMount ==
    /\ LdFrame
    /\ ldEffectLocale = None
    /\ ldLocale' = ldDefault
    /\ ldEffectLocale' = ldBuildLocale
    /\ LdStart(ldBuildLocale)
    /\ UNCHANGED <<now, ldBuildLocale, ldDefault, ldHasFeature, ldTranslations,
                   ldNotified, ldChanges>>

\* A render with a new locale: the effect calls the new loadDictionary.
LdLocaleEffect ==
    /\ LdFrame
    /\ ldEffectLocale # None
    /\ ldEffectLocale # ldLocale
    /\ Len(ldRuns) < MaxLoads
    /\ ldEffectLocale' = ldLocale
    /\ LdStart(ldLocale)
    /\ UNCHANGED <<now, ldBuildLocale, ldDefault, ldHasFeature, ldLocale,
                   ldTranslations, ldNotified, ldChanges>>

\* The overrideLocale prop changes: getDefaultLanguage is a new callback and
\* its effect sets the locale again.
LdOverrideLocale ==
    /\ LdFrame
    /\ ldEffectLocale # None
    /\ ldChanges < MaxLocaleChanges
    /\ \E locale \in DictionaryLocales :
         /\ locale # ldDefault
         /\ ldDefault' = locale
         /\ ldLocale' = locale
    /\ ldChanges' = ldChanges + 1
    /\ UNCHANGED <<now, ldBuildLocale, ldHasFeature, ldEffectLocale, ldLoading,
                   ldTranslations, ldPendingCallbacks, ldTimer, ldRuns, ldNotified>>

\* After the shared dictionary: the feature dictionary, or the end of the try.
LdAfterShared(i, run) ==
    IF ldHasFeature
    THEN /\ ldRuns' = [ldRuns EXCEPT ![i] = [run EXCEPT !.pc = "feature"]]
         /\ ldLoading' = "true"
         /\ UNCHANGED <<ldPendingCallbacks, ldTimer>>
    ELSE /\ ldRuns' = [ldRuns EXCEPT ![i] = FinishRun(run)]
         /\ ldPendingCallbacks' = Append(ldPendingCallbacks, i)
         /\ ldTimer' = <<run.locale>>
         /\ UNCHANGED ldLoading

\* The import of the shared dictionary settles.
LdSharedSettles ==
    /\ LdFrame
    /\ \E i \in DOMAIN ldRuns, outcome \in SharedOutcomes :
         LET run == ldRuns[i] IN
         /\ run.pc = "shared"
         /\ IF outcome = "module"
            THEN /\ ldTranslations' = ldTranslations \cup {run.locale}
                 /\ LdAfterShared(i, run)
                 /\ UNCHANGED <<ldLocale, ldNotified>>
            ELSE IF Rethrown(run.locale)
            THEN /\ ldRuns' = [ldRuns EXCEPT ![i] = FailRun(run, "shared")]
                 /\ ldLocale' = "en"
                 /\ UNCHANGED <<ldLoading, ldTranslations, ldPendingCallbacks,
                                ldTimer, ldNotified>>
            ELSE /\ ldNotified' = ldNotified + 1
                 /\ LdAfterShared(i, [run EXCEPT !.failure = "shared"])
                 /\ UNCHANGED <<ldLocale, ldTranslations>>
    /\ UNCHANGED <<now, ldBuildLocale, ldDefault, ldHasFeature, ldEffectLocale,
                   ldChanges>>

\* The import of the feature dictionary settles.
LdFeatureSettles ==
    /\ LdFrame
    /\ \E i \in DOMAIN ldRuns, outcome \in FeatureOutcomes :
         LET run == ldRuns[i]
             failure == IF outcome = "dictionary" THEN run.failure ELSE "feature"
         IN
         /\ run.pc = "feature"
         /\ IF outcome = "rejected" /\ Rethrown(run.locale)
            THEN /\ ldRuns' = [ldRuns EXCEPT ![i] = FailRun(run, "feature")]
                 /\ ldLocale' = "en"
                 /\ UNCHANGED <<ldPendingCallbacks, ldTimer, ldNotified>>
            ELSE /\ ldRuns' = [ldRuns EXCEPT ![i] =
                                  FinishRun([run EXCEPT !.failure = failure])]
                 /\ ldPendingCallbacks' = Append(ldPendingCallbacks, i)
                 /\ ldTimer' = <<run.locale>>
                 /\ ldNotified' = IF outcome = "rejected" THEN ldNotified + 1
                                  ELSE ldNotified
                 /\ UNCHANGED ldLocale
    /\ UNCHANGED <<now, ldBuildLocale, ldDefault, ldHasFeature, ldEffectLocale,
                   ldLoading, ldTranslations, ldChanges>>

\* The debounce timer fires: updateTranslations calls every pending callback.
LdUpdateTranslations ==
    /\ LdFrame
    /\ ldTimer # <<>>
    /\ ldTimer' = <<>>
    /\ ldTranslations' = ldTranslations \cup {ldTimer[1]}
    /\ ldLoading' = IF ldPendingCallbacks # <<>> THEN "false" ELSE ldLoading
    /\ ldPendingCallbacks' = <<>>
    /\ ldRuns' = [i \in DOMAIN ldRuns |->
                    IF /\ ldPendingCallbacks # <<>>
                       /\ ldRuns[i].locale = ldLocale
                       /\ ldRuns[i].pc \in {"shared", "feature"}
                    THEN [ldRuns[i] EXCEPT !.shown = TRUE]
                    ELSE ldRuns[i]]
    /\ UNCHANGED <<now, ldBuildLocale, ldDefault, ldHasFeature, ldLocale,
                   ldEffectLocale, ldNotified, ldChanges>>

LdNext ==
    \/ LdMount
    \/ LdLocaleEffect
    \/ LdOverrideLocale
    \/ LdSharedSettles
    \/ LdFeatureSettles
    \/ LdUpdateTranslations

(***************************************************************************)
(* AuthorizeIframe: the effect that announces the modal.  State changes    *)
(* (modalVisible, loaded, a new onModalVisibleChange prop) are batched; a  *)
(* render commits them and runs the effect when one of its dependencies    *)
(* has changed.  Booleans are "true" / "false", undefined is Undefined.    *)
(***************************************************************************)
\* usePrevious(value): the value of the previous render, undefined at the
\* first one; the hook stores the value after every render.
usePrevious(stored) == stored

AlwaysChanged(modalVisible, prevModalVisible) == TRUE

\* The guard of the effect: modalVisible === prevModalVisible returns early.
ModalVisibleChanged(modalVisible, prevModalVisible) ==
    modalVisible # prevModalVisible

\* What one run of the effect emits, in order.
ModalEmissions(modalVisible, hasCallback) ==
    LET kind == IF modalVisible = "true" THEN "opened" ELSE "closed"
    IN  <<[what |-> "postMessage", name |-> "sheetmodal" \o kind],
          [what |-> "dispatchEvent", name |-> "modal" \o kind]>>
        \o (IF hasCallback
            THEN <<[what |-> "onModalVisibleChange", name |-> modalVisible]>>
            ELSE <<>>)

\* The dependencies of the effect as one render sees them.
ModalEffectDeps(state, prevModalVisible) ==
    [modalVisible |-> state.modalVisible, prevModalVisible |-> prevModalVisible,
     postMessageHelper |-> state.loaded,
     onModalVisibleChange |-> state.callbackVersion]

MdInit ==
    /\ mdState \in [modalVisible : {"true", "false"}, loaded : {"false"},
                    callbackVersion : {0}, hasCallback : BOOLEAN]
    /\ mdDirty = TRUE
    /\ mdStored = Undefined
    /\ mdDeps = Null
    /\ mdRenders = <<>>
    /\ mdEmitted = <<>>

MdIdle ==
    /\ mdState = [modalVisible |-> "false", loaded |-> "false",
                  callbackVersion |-> 0, hasCallback |-> FALSE]
    /\ mdDirty = TRUE
    /\ mdStored = Undefined
    /\ mdDeps = Null
    /\ mdRenders = <<>>
    /\ mdEmitted = <<>>

\* showModal / hideModal: the reducer flips modalVisible.
MdToggleModal ==
    /\ MdFrame
    /\ mdRenders # <<>>
    /\ mdState' = [mdState EXCEPT !.modalVisible =
                      IF @ = "true" THEN "false" ELSE "true"]
    /\ mdDirty' = TRUE
    /\ UNCHANGED <<now, mdStored, mdDeps, mdRenders, mdEmitted>>

\* 'loaded' / 'reset': the loaded flag changes, and with it postMessageHelper.
MdLoadedChanges ==
    /\ MdFrame
    /\ mdRenders # <<>>
    /\ mdState' = [mdState EXCEPT !.loaded = IF @ = "true" THEN "false" ELSE "true"]
    /\ mdDirty' = TRUE
    /\ UNCHANGED <<now, mdStored, mdDeps, mdRenders, mdEmitted>>

\* The parent renders with a new onModalVisibleChange function.
MdParentRenders ==
    /\ MdFrame
    /\ mdRenders # <<>>
    /\ mdState.callbackVersion < MaxCallbackVersions
    /\ mdState' = [mdState EXCEPT !.callbackVersion = @ + 1]
    /\ mdDirty' = TRUE
    /\ UNCHANGED <<now, mdStored, mdDeps, mdRenders, mdEmitted>>

\* A render and its effects.
MdRender ==
    /\ MdFrame
    /\ mdDirty
    /\ Len(mdRenders) < MaxRenders
    /\ LET prevModalVisible == usePrevious(mdStored)
           deps == ModalEffectDeps(mdState, prevModalVisible)
           runs == deps # mdDeps
           emits == runs /\ ModalVisibleChanged(mdState.modalVisible, prevModalVisible)
       IN  /\ mdDeps' = deps
           /\ mdEmitted' = IF emits
                           THEN mdEmitted \o ModalEmissions(mdState.modalVisible,
                                                            mdState.hasCallback)
                           ELSE mdEmitted
           /\ mdRenders' = Append(mdRenders,
                               [modalVisible |-> mdState.modalVisible,
                                effectRan |-> runs,
                                emitted |-> emits,
                                emittedUpTo |-> Len(mdEmitted')])
    /\ mdStored' = mdState.modalVisible
    /\ mdDirty' = FALSE
    /\ UNCHANGED <<now, mdState>>

MdNext ==
    \/ MdToggleModal
    \/ MdLoadedChanges
    \/ MdParentRenders
    \/ MdRender

(***************************************************************************)
(* Modal and Inline: the surface becomes dismissible 400 ms after it was   *)
(* shown.  In this subsystem one tick of the clock is 200 ms.              *)
(***************************************************************************)
ModalTransitionMillis == 400

\* Milliseconds on the clock at tick t.
DsMillis(t) == t * 200

AuthorizeSurfaces == {"Modal", "Inline"}

\* How the user can ask to dismiss: the Modal has an overlay, an Escape key
\* listener and the close button of its header; the Inline has the header.
DismissMethods(surface) ==
    IF surface = "Modal" THEN {"overlay", "keyboard", "close_button"}
    ELSE {"close_button"}

\* AuthorizeState reducer, action 'modalDismissible'.
ReduceModalDismissible(modalDismissible) == TRUE

TimerSurvives(timer) == timer

\* The cleanup of the effect: clearTimeout(timeout).
ClearTimeout(timer) == <<>>

\* The effect on [dispatch, visible]: a timer of 400 ms while visible.
DismissibleTimer(visible, time) ==
    IF visible THEN <<DsMillis(time) + ModalTransitionMillis>> ELSE <<>>

\* handleDismiss: nothing happens while the captured modalDismissible is false.
HandleDismissCalls(captured) == captured

DsInit ==
    /\ dsSurface \in AuthorizeSurfaces
    /\ dsHasHeader \in BOOLEAN
    /\ dsVisible \in BOOLEAN
    /\ dsVisibleSince = IF dsVisible THEN <<now>> ELSE <<>>
    /\ dsTimer = DismissibleTimer(dsVisible, now)
    /\ dsDismissible = FALSE
    /\ dsCaptured = FALSE
    /\ dsDispatched = <<>>
    /\ dsDismissCalls = <<>>
    /\ dsAttempts = 0
    /\ dsChanges = 0

DsIdle ==
    /\ dsSurface = "Modal"
    /\ dsHasHeader = FALSE
    /\ dsVisible = FALSE
    /\ dsVisibleSince = <<>>
    /\ dsTimer = <<>>
    /\ dsDismissible = FALSE
    /\ dsCaptured = FALSE
    /\ dsDispatched = <<>>
    /\ dsDismissCalls = <<>>
    /\ dsAttempts = 0
    /\ dsChanges = 0

\* The parent renders the surface with another value of visible: the cleanup
\* of the previous effect runs, then the effect.
DsVisibleChanges ==
    /\ DsFrame
    /\ dsChanges < MaxVisibleChanges
    /\ dsVisible' = ~dsVisible
    /\ dsVisibleSince' = IF dsVisible' THEN <<now>> ELSE <<>>
    /\ dsTimer' = IF dsVisible' THEN DismissibleTimer(dsVisible', now)
                  ELSE ClearTimeout(dsTimer)
    /\ dsCaptured' = dsDismissible
    /\ dsChanges' = dsChanges + 1
    /\ UNCHANGED <<now, dsSurface, dsHasHeader, dsDismissible, dsDispatched,
                   dsDismissCalls, dsAttempts>>

\* The timer fires: dispatch({type: 'modalDismissible'}).
DsTimerFires ==
    /\ DsFrame
    /\ dsTimer # <<>>
    /\ DsMillis(now) >= dsTimer[1]
    /\ dsTimer' = <<>>
    /\ dsDismissible' = ReduceModalDismissible(dsDismissible)
    /\ dsDispatched' = Append(dsDispatched,
                              [at |-> now, visible |-> dsVisible,
                               since |-> dsVisibleSince])
    /\ UNCHANGED <<now, dsSurface, dsHasHeader, dsVisible, dsVisibleSince,
                   dsCaptured, dsDismissCalls, dsAttempts, dsChanges>>

\* The surface renders with the new state: handleDismiss captures it.
DsRender ==
    /\ DsFrame
    /\ dsCaptured # dsDismissible
    /\ dsCaptured' = dsDismissible
    /\ UNCHANGED <<now, dsSurface, dsHasHeader, dsVisible, dsVisibleSince,
                   dsTimer, dsDismissible, dsDispatched, dsDismissCalls,
                   dsAttempts, dsChanges>>

\* The user clicks the overlay or the close button, or presses Escape.
DsUserDismisses ==
    /\ DsFrame
    /\ dsAttempts < MaxDismissAttempts
    /\ \E method \in DismissMethods(dsSurface) :
         /\ method = "close_button" => dsHasHeader
         /\ dsDismissCalls' =
              IF HandleDismissCalls(dsCaptured)
              THEN Append(dsDismissCalls,
                          [method |-> method, at |-> now,
                           modalDismissible |-> dsDismissible,
                           dispatched |-> Len(dsDispatched)])
              ELSE dsDismissCalls
    /\ dsAttempts' = dsAttempts + 1
    /\ UNCHANGED <<now, dsSurface, dsHasHeader, dsVisible, dsVisibleSince,
                   dsTimer, dsDismissible, dsCaptured, dsDispatched, dsChanges>>

DsNext ==
    \/ DsVisibleChanges
    \/ DsTimerFires
    \/ DsRender
    \/ DsUserDismisses
    \/ Tick

(***************************************************************************)
(* AuthorizeIframe / LoginIframe: callbackRef.  Iframe elements are        *)
(* numbered from 1, 0 stands for null; the src attribute of an element is  *)
(* a URL or "" (absent or empty).                                          *)
(***************************************************************************)
NullRef == 0

IframeSrcs == {"url1", "url2"}

IframeElements == 1..MaxIframeElements

StoresNull(current, attributes, ref, src) ==
    IF ref = NullRef THEN [current |-> NullRef, attributes |-> attributes]
    ELSE [current |-> ref,
          attributes |-> IF attributes[ref] = ""
                         THEN [attributes EXCEPT ![ref] = src]
                         ELSE attributes]

\* callbackRef(ref): iframeRef.current and the src attributes after the call.
callbackRef(current, attributes, ref, src) ==
    IF ref = NullRef THEN [current |-> current, attributes |-> attributes]
    ELSE [current |-> ref,
          attributes |-> IF attributes[ref] = ""
                         THEN [attributes EXCEPT ![ref] = src]
                         ELSE attributes]

CrInit ==
    /\ crComp \in IframeComponents
    /\ crSrc \in IframeSrcs
    /\ crAttributes \in [IframeElements -> {"", "url1"}]
    /\ crCurrent = NullRef
    /\ crCalls = <<>>

CrIdle ==
    /\ crComp = "AuthorizeIframe"
    /\ crSrc = "url1"
    /\ crAttributes = [e \in IframeElements |-> ""]
    /\ crCurrent = NullRef
    /\ crCalls = <<>>

\* The renderer calls the ref callback: with null when the iframe is removed
\* or the callback is replaced, with the element when it is attached.
CrCallbackRef ==
    /\ CrFrame
    /\ Len(crCalls) < MaxRefCalls
    /\ \E ref \in IframeElements \cup {NullRef} :
         LET after == callbackRef(crCurrent, crAttributes, ref, crSrc)
         IN  /\ crCurrent' = after.current
             /\ crAttributes' = after.attributes
             /\ crCalls' = Append(crCalls,
                               [ref |-> ref, src |-> crSrc,
                                before |-> crCurrent, after |-> after.current,
                                attributesBefore |-> crAttributes,
                                attributesAfter |-> after.attributes])
    /\ UNCHANGED <<now, crComp, crSrc>>

\* The component renders with another src prop.
CrSrcChanges ==
    /\ CrFrame
    /\ \E src \in IframeSrcs :
         /\ src # crSrc
         /\ crSrc' = src
    /\ UNCHANGED <<now, crComp, crAttributes, crCurrent, crCalls>>

CrNext ==
    \/ CrCallbackRef
    \/ CrSrcChanges

(***************************************************************************)
(* Specifications: one per subsystem, the others idle.                     *)
(***************************************************************************)
InitImport ==
    now = 1 /\ ImInit /\ SlIdle /\ PmIdle /\ RdIdle /\ IfIdle /\ BgIdle
        /\ ExIdle /\ WdIdle /\ LcIdle /\ LdIdle /\ MdIdle /\ DsIdle /\ CrIdle
SpecImport == InitImport /\ [][ImNext]_vars

InitLogin ==
    now = 1 /\ SlInit /\ ImIdle /\ PmIdle /\ RdIdle /\ IfIdle /\ BgIdle
        /\ ExIdle /\ WdIdle /\ LcIdle /\ LdIdle /\ MdIdle /\ DsIdle /\ CrIdle
SpecLogin == InitLogin /\ [][SlNext]_vars

SpecLifecycle == InitLogin /\ [][SlLifecycleNext]_vars

InitPolicy ==
    now = 1 /\ PmInit /\ ImIdle /\ SlIdle /\ RdIdle /\ IfIdle /\ BgIdle
        /\ ExIdle /\ WdIdle /\ LcIdle /\ LdIdle /\ MdIdle /\ DsIdle /\ CrIdle
SpecPolicy == InitPolicy /\ [][PmNext]_vars

InitReducer ==
    now = 1 /\ RdInit /\ ImIdle /\ SlIdle /\ PmIdle /\ IfIdle /\ BgIdle
        /\ ExIdle /\ WdIdle /\ LcIdle /\ LdIdle /\ MdIdle /\ DsIdle /\ CrIdle
SpecReducer == InitReducer /\ [][RdNext]_vars

InitIframe ==
    now = 1 /\ IfInit /\ ImIdle /\ SlIdle /\ PmIdle /\ RdIdle /\ BgIdle
        /\ ExIdle /\ WdIdle /\ LcIdle /\ LdIdle /\ MdIdle /\ DsIdle /\ CrIdle
SpecIframe == InitIframe /\ [][IfNext]_vars

InitBugsnag ==
    now = 1 /\ BgInit /\ ImIdle /\ SlIdle /\ PmIdle /\ RdIdle /\ IfIdle
        /\ ExIdle /\ WdIdle /\ LcIdle /\ LdIdle /\ MdIdle /\ DsIdle /\ CrIdle
SpecBugsnag == InitBugsnag /\ [][BgNext]_vars

InitExporter ==
    now = 1 /\ ExInit /\ ImIdle /\ SlIdle /\ PmIdle /\ RdIdle /\ IfIdle
        /\ BgIdle /\ WdIdle /\ LcIdle /\ LdIdle /\ MdIdle /\ DsIdle /\ CrIdle
SpecExporter == InitExporter /\ [][ExNext]_vars

InitWindoid ==
    now = 1 /\ WdInit /\ ImIdle /\ SlIdle /\ PmIdle /\ RdIdle /\ IfIdle
        /\ BgIdle /\ ExIdle /\ LcIdle /\ LdIdle /\ MdIdle /\ DsIdle /\ CrIdle
SpecWindoid == InitWindoid /\ [][WdNext]_vars

InitLocale ==
    now = 1 /\ LcInit /\ ImIdle /\ SlIdle /\ PmIdle /\ RdIdle /\ IfIdle
        /\ BgIdle /\ ExIdle /\ WdIdle /\ LdIdle /\ MdIdle /\ DsIdle /\ CrIdle
SpecLocale == InitLocale /\ [][LcNext]_vars

InitDictionary ==
    now = 1 /\ LdInit /\ ImIdle /\ SlIdle /\ PmIdle /\ RdIdle /\ IfIdle
        /\ BgIdle /\ ExIdle /\ WdIdle /\ LcIdle /\ MdIdle /\ DsIdle /\ CrIdle
SpecDictionary == InitDictionary /\ [][LdNext]_vars

InitModalEvents ==
    now = 1 /\ MdInit /\ ImIdle /\ SlIdle /\ PmIdle /\ RdIdle /\ IfIdle
        /\ BgIdle /\ ExIdle /\ WdIdle /\ LcIdle /\ LdIdle /\ DsIdle /\ CrIdle
SpecModalEvents == InitModalEvents /\ [][MdNext]_vars

InitDismissible ==
    now = 1 /\ DsInit /\ ImIdle /\ SlIdle /\ PmIdle /\ RdIdle /\ IfIdle
        /\ BgIdle /\ ExIdle /\ WdIdle /\ LcIdle /\ LdIdle /\ MdIdle /\ CrIdle
SpecDismissible == InitDismissible /\ [][DsNext]_vars

InitCallbackRef ==
    now = 1 /\ CrInit /\ ImIdle /\ SlIdle /\ PmIdle /\ RdIdle /\ IfIdle
        /\ BgIdle /\ ExIdle /\ WdIdle /\ LcIdle /\ LdIdle /\ MdIdle /\ DsIdle
SpecCallbackRef == InitCallbackRef /\ [][CrNext]_vars

(***************************************************************************)
(* Claims about importWithRetry.                                           *)
(***************************************************************************)
\* The last failed attempt threw an Error that is not a network error: its
\* message gives no URL once the prefix is removed, and does not contain
\* 'Importing a module script failed'.
ImNonNetworkFailure ==
    /\ imLastError # Null
    /\ imLastError.error.isError
    /\ convertStringToUrl(Trim(RemoveFirst(imLastError.error.message, "PFX"))) = Null
    /\ ~Includes(imLastError.error.message, "GEN")

\* The last failed attempt threw an Error that the code retries.
ImRetryableFailure ==
    /\ imLastError # Null
    /\ imLastError.error.isError
    /\ \/ convertStringToUrl(Trim(RemoveFirst(imLastError.error.message, "PFX"))) # Null
       \/ Includes(imLastError.error.message, "GEN")

\* C1 as stated: after an attempt rejects with a non-network Error no further
\* attempt is made and the returned promise rejects with that error.
C1_NonNetworkAlwaysRejects ==
    ImNonNetworkFailure =>
        /\ imPc = "done"
        /\ imResult = Rejected(imLastError.error)

\* C1 (amended): after an attempt rejects with a non-network Error no further
\* attempt is made; the returned promise rejects with that error unless the
\* signal was aborted by then, in which case it resolves to undefined.
C1_NonNetworkNotRetried ==
    ImNonNetworkFailure =>
        /\ imPc = "done"
        /\ imAttempts = imLastError.attempt
        /\ imResult = IF imLastError.aborted THEN Resolved(Undefined)
                      ELSE Rejected(imLastError.error)

C1_Witness ==
    /\ ImNonNetworkFailure
    /\ ~imLastError.aborted
    /\ imRetryCount < imCfg.maxRetries - 1
    /\ imResult = Rejected(imLastError.error)

\* C2 as stated: with maxRetries = n >= 1 at most n attempts are started, and
\* when the n-th attempt fails with a retryable error the promise rejects
\* with the error of the n-th attempt.
C2_AlwaysRejectsWithLast ==
    imCfg.maxRetries >= 1 =>
        /\ imAttempts <= imCfg.maxRetries
        /\ (ImRetryableFailure /\ imLastError.attempt = imCfg.maxRetries)
              => imResult = Rejected(imLastError.error)

\* C2 (amended): with maxRetries = n >= 1 at most n attempts are started;
\* when the n-th attempt fails with a retryable error and the signal is not
\* aborted at that moment, the promise rejects with the error of the n-th
\* attempt.
C2_AtMostMaxRetriesAttempts ==
    imCfg.maxRetries >= 1 =>
        /\ imAttempts <= imCfg.maxRetries
        /\ (ImRetryableFailure /\ imLastError.attempt = imCfg.maxRetries
                /\ ~imLastError.aborted)
              => imResult = Rejected(imLastError.error)

C2_Witness ==
    /\ imCfg.maxRetries >= 2
    /\ imAttempts = imCfg.maxRetries
    /\ ImRetryableFailure
    /\ imLastError.attempt = imCfg.maxRetries
    /\ imResult = Rejected(imLastError.error)

\* C3: a retry takes the route the error of the failed attempt chooses.  After
\* 'Failed to fetch dynamically imported module: <url>' it is retryImport on
\* that URL with t set to the time of the failure; after 'Importing a module
\* script failed' without a URL it is the original importer; and it starts no
\* earlier than retryDelay after the failure.
C3_RetryRouteFollowsError ==
    (imLastAttempt # Null /\ imLastAttempt.cause # Null) =>
        LET cause == imLastAttempt.cause
            m == cause.error.message
        IN  /\ (Len(m) >= 2 /\ m[1] = "PFX" /\ m[2] \in UrlTokens) =>
                   /\ imLastAttempt.route = "retryImport"
                   /\ imLastAttempt.path.href = Trim(Tail(m))
                   /\ imLastAttempt.path.t = {cause.at}
            /\ (Includes(m, "GEN")
                    /\ convertStringToUrl(Trim(RemoveFirst(m, "PFX"))) = Null) =>
                   /\ imLastAttempt.route = "importer"
                   /\ imLastAttempt.path = Null
            /\ imLastAttempt.startedAt >= cause.at + imCfg.retryDelay

\* The third attempt is a retryImport with a fresh timestamp, started after
\* the delay that follows the failure of the second attempt.
C3_Witness ==
    /\ imAttempts = 3
    /\ imCfg.retryDelay >= 1
    /\ imLastAttempt # Null
    /\ imLastAttempt.cause # Null
    /\ imLastAttempt.route = "retryImport"
    /\ imLastAttempt.cause.attempt = 2
    /\ imLastAttempt.cause.error.message = <<"PFX", "URLT">>
    /\ imLastAttempt.path.t = {imLastAttempt.cause.at}
    /\ imLastAttempt.startedAt >= imLastAttempt.cause.at + imCfg.retryDelay

(***************************************************************************)
(* Claims about the presentation mode policy and the ShopLogin reducer.    *)
(***************************************************************************)
\* C4: getLocalPresentationMode returns 'card' exactly when dismissed is false
\* and either userMatched is true, or the original mode is 'card' and
\* userRecognized is true; otherwise it returns 'button'.
C4_PolicyTruthTable ==
    \A c \in pmCalls :
        /\ c.result \in {"button", "card"}
        /\ c.result = "card" <=>
             /\ ~c.args.dismissed
             /\ \/ c.args.userMatched = "true"
                \/ /\ c.args.originalPresentationMode = "card"
                   /\ c.args.userRecognized

C4_Witness ==
    /\ \E c \in pmCalls :
         /\ c.args.userMatched = "true" /\ ~c.args.dismissed
         /\ c.args.originalPresentationMode = "button" /\ c.result = "card"
    /\ \E c \in pmCalls :
         /\ c.args.userMatched = "true" /\ c.args.dismissed
         /\ c.args.originalPresentationMode = "card" /\ c.args.userRecognized
         /\ c.result = "button"

\* C5: after a userMatched action localPresentationMode is 'card' when the
\* widget was not dismissed, and 'button' when it was.
C5_UserMatchedShowsCardUnlessDismissed ==
    (slAction # Null /\ slAction.type = "userMatched") =>
        slState.localPresentationMode =
            IF slPrev.dismissed THEN "button" ELSE "card"

\* C6: two applications of shopLoginReducer to the same state and action
\* return equal states, and the state given is not changed.
C6_ReducerIsPure ==
    /\ rdSecond # Null => rdSecond = rdFirst
    /\ rdState = rdGiven

(***************************************************************************)
(* Claims about the iframe components.                                     *)
(***************************************************************************)
\* C7: a postMessage call made with afterLoaded = true while loaded is false
\* posts only after a 'loaded' message has been received from the iframe;
\* a call with afterLoaded false or not given, or made with loaded true, has
\* posted when it returns to its caller, without waiting for a message.
C7_PostWaitsForLoaded ==
    \A i \in DOMAIN ifCalls :
        LET c == ifCalls[i] IN
        IF c.options = "true" /\ ~c.loaded
        THEN c.status = "posted" =>
                /\ c.msgsAtPost > c.msgsAtCall
                /\ c.postedEvent = c.event
        ELSE /\ c.status = "posted"
             /\ c.msgsAtPost = c.msgsAtCall
             /\ c.postedEvent = c.event

C7_Witness ==
    /\ Len(ifCalls) = 2
    /\ ifCalls[1].options = "true" /\ ~ifCalls[1].loaded
    /\ ifCalls[1].status = "posted"
    /\ ifCalls[2].options = "true" /\ ifCalls[2].loaded
    /\ ifCalls[2].status = "posted"

(***************************************************************************)
(* Claims about the Bugsnag onError filter.                                *)
(***************************************************************************)
\* onError has handled an event that has a first exception.
BgHandled == bgReturn # "pending" /\ bgEvent # <<>>

\* The first exception is filtered before the network checks: it has no
\* in-project stack frame, is a sandboxed-cookie SecurityError, is a
\* cross-origin-frame SecurityError in a ShopPayPaymentRequest feature, or
\* has an unactionable errorClass.
BgFilteredFirst ==
    LET e == bgEvent[1] IN
    \/ \A i \in 1..Len(e.stacktrace) : ~e.stacktrace[i].inProject
    \/ /\ e.errorClass = "SecurityError"
       /\ MessageIncludes(e.message, "Failed to read the 'cookie' property from 'Document'")
       /\ MessageIncludes(e.message, "sandboxed")
    \/ /\ e.errorClass = "SecurityError"
       /\ MessageIncludes(e.message, "Blocked a frame with origin")
       /\ MessageIncludes(e.message, "from accessing a cross-origin frame")
       /\ bgFeature \in {"ShopPayPaymentRequest", "ShopPayPaymentRequestButton",
                         "ShopPayPaymentRequestLogin"}
    \/ e.errorClass \in {"NotFoundError", "NotSupportedError", "ReferenceError",
                         "SyntaxError", "TypeError"}

\* The first exception is a network error in the words of C8.
BgNetworkFirst ==
    LET e == bgEvent[1] IN
    \/ e.errorClass = "NetworkError"
    \/ MessageIncludes(e.message, "Load failed")
    \/ MessageIncludes(e.message, "Failed to fetch")
    \/ MessageIncludes(e.message, "when attempting to fetch resource")
    \/ MessageIncludes(e.message,
           "A network failure may have prevented the request from completing")
    \/ MessageIncludes(e.message, "Backpressure applied")

\* The first exception is a dynamic import error in the words of C9.
BgDynamicImportFirst ==
    LET e == bgEvent[1] IN
    \/ MessageIncludes(e.message, "Failed to fetch dynamically imported module")
    \/ MessageIncludes(e.message, "Importing a module script failed")

\* C8 as stated: for every event whose first exception is a network error,
\* onError returns false and onNetworkError is called.
C8_NetworkErrorAlwaysRecorded ==
    (BgHandled /\ BgNetworkFirst) =>
        /\ bgReturn = "false"
        /\ Len(bgNetCalls) >= 1

\* C8 (amended): for every event whose first exception is a network error,
\* onError returns false; onNetworkError is called, once, exactly when the
\* exception is not filtered before the network checks (it has an in-project
\* frame, is not an ignorable SecurityError and its errorClass is not in the
\* unactionable list).
C8_NetworkErrorNotNotified ==
    (BgHandled /\ BgNetworkFirst) =>
        /\ bgReturn = "false"
        /\ ~bgDecorated
        /\ Len(bgNetCalls) = (IF BgFilteredFirst THEN 0 ELSE 1)
        /\ Len(bgCounters) = Len(bgNetCalls)

C8_Witness ==
    /\ BgHandled
    /\ bgEvent[1].errorClass = "Error"
    /\ bgEvent[1].message.text = <<"OTHER", "Load failed">>
    /\ ~BgFilteredFirst
    /\ bgNetCalls = <<Undefined>>
    /\ bgCounters[1].error = "NetworkError"

\* C9 as stated: for every event whose first exception is a dynamic import
\* error, onError returns false, onNetworkError is called with
\* 'DynamicImportError', and no plain 'NetworkError' is counted.
C9_DynamicImportAlwaysRecorded ==
    (BgHandled /\ BgDynamicImportFirst) =>
        /\ bgReturn = "false"
        /\ bgNetCalls = <<"DynamicImportError">>
        /\ \A i \in DOMAIN bgCounters : bgCounters[i].error # "NetworkError"

\* C9 (amended): for every event whose first exception is a dynamic import
\* error, onError returns false and no plain 'NetworkError' is counted;
\* onNetworkError is called, once and with 'DynamicImportError', exactly when
\* the exception is not filtered before the network checks.
C9_DynamicImportNotNotified ==
    (BgHandled /\ BgDynamicImportFirst) =>
        /\ bgReturn = "false"
        /\ ~bgDecorated
        /\ bgNetCalls = (IF BgFilteredFirst THEN <<>> ELSE <<"DynamicImportError">>)
        /\ Len(bgCounters) = Len(bgNetCalls)
        /\ \A i \in DOMAIN bgCounters : bgCounters[i].error = "DynamicImportError"

C9_Witness ==
    /\ BgHandled
    /\ bgEvent[1].errorClass = "Error"
    /\ bgEvent[1].message.text = <<"Failed to fetch dynamically imported module">>
    /\ ~BgFilteredFirst
    /\ bgNetCalls = <<"DynamicImportError">>
    /\ Len(bgCounters) = 1
    /\ bgCounters[1].error = "DynamicImportError"

(***************************************************************************)
(* Claims about ExporterWithRetries.                                       *)
(***************************************************************************)
\* C10: an attempt that fails with an OpenTelemetryClientError carrying
\* metadata.retryAfter is followed by exactly one further attempt with the
\* same metrics/logs and options, started no earlier than retryAfter.seconds
\* seconds after the failure: until it starts its timer is pending, and no
\* attempt starts for any other reason.
C10_RetryAfterServerBackoff ==
    \A i \in DOMAIN exCalls :
        LET c == exCalls[i]
            retried == /\ c.error # Null
                       /\ c.error.class = "OpenTelemetryClientError"
                       /\ c.error.metadata
                       /\ c.error.retryAfter # <<>>
        IN  /\ retried =>
                IF i = Len(exCalls)
                THEN c.status = "waiting"
                ELSE /\ exCalls[i + 1].kind = c.kind
                     /\ exCalls[i + 1].payload = c.payload
                     /\ exCalls[i + 1].options = c.options
                     /\ exCalls[i + 1].startedAt >=
                            c.failedAt + c.error.retryAfter[1].seconds
            /\ i < Len(exCalls) => retried

C10_Witness ==
    /\ Len(exCalls) = 3
    /\ exCalls[1].kind = "logs"
    /\ exCalls[1].error.retryAfter = <<[seconds |-> 2]>>
    /\ exCalls[2].error.retryAfter = <<[seconds |-> 0]>>
    /\ exCalls[3].startedAt = exCalls[2].failedAt

\* C11: when the first attempt of exportMetrics or exportLogs fails with an
\* error that is not an OpenTelemetryClientError, or with one that carries no
\* retryAfter, no retry is scheduled (no timer, no further attempt) and the
\* returned promise rejects with that same error.
C11_NoRetryWithoutRetryAfter ==
    (/\ exCalls # <<>>
     /\ exCalls[1].error # Null
     /\ \/ exCalls[1].error.class # "OpenTelemetryClientError"
        \/ exCalls[1].error.retryAfter = <<>>)
        => /\ Len(exCalls) = 1
           /\ exCalls[1].status = "rejected"
           /\ exCalls[1].error \in ExportErrors
           /\ exUnhandled = 0

C11_Witness ==
    /\ Len(exCalls) = 1
    /\ exCalls[1].status = "rejected"
    /\ exCalls[1].error.class = "OpenTelemetryClientError"
    /\ exCalls[1].error.metadata
    /\ exCalls[1].error.retryAfter = <<>>
    /\ exCalls[1].kind = "logs"

(***************************************************************************)
(* Claims about the windoid message handler.                               *)
(***************************************************************************)
\* The positions in the log of a step of one message.
WdPositions(msg, step, name) ==
    {k \in DOMAIN wdLog : /\ wdLog[k].msg = msg
                          /\ wdLog[k].step = step
                          /\ wdLog[k].name = name}

\* C12: per message the steps have a fixed order.  For 'completed' the
\* 'completed' event is dispatched only after handleComplete has finished and
\* close() is called only after that dispatch; for 'error' the 'error' event
\* and close() come only after handleError (when given) has finished, close()
\* after the dispatch; 'windoidopened' and 'custom_flow_side_effect' never
\* close the windoid; an unknown type dispatches nothing and closes nothing;
\* and a message dispatches no event of another type.
C12_WindoidStepOrder ==
    \A i \in DOMAIN wdRun :
        LET type == wdRun[i].type
            closes == WdPositions(i, "close", "windoid")
            dispatches == {k \in DOMAIN wdLog :
                              wdLog[k].msg = i /\ wdLog[k].step = "dispatch"}
        IN  /\ type = "completed" =>
                /\ \A d \in dispatches :
                     /\ wdLog[d].name = "completed"
                     /\ \E r \in WdPositions(i, "return", "handleComplete") : r < d
                /\ \A c \in closes : \E d \in dispatches : d < c
            /\ type = "error" =>
                /\ \A d \in dispatches :
                     /\ wdLog[d].name = "error"
                     /\ "handleError" \in wdHandlers =>
                            \E r \in WdPositions(i, "return", "handleError") : r < d
                /\ \A c \in closes :
                     /\ \E d \in dispatches : d < c
                     /\ "handleError" \in wdHandlers =>
                            \E r \in WdPositions(i, "return", "handleError") : r < c
            /\ type = "windoidopened" =>
                /\ closes = {}
                /\ \A d \in dispatches : wdLog[d].name = "windoidopened"
            /\ type = "custom_flow_side_effect" => closes = {} /\ dispatches = {}
            /\ type = "unknown" => closes = {} /\ dispatches = {}

\* A 'completed' message went through handleComplete, dispatch and close()
\* while a step of another message came in between, and an 'error' message
\* was handled too.
C12_Witness ==
    /\ wdRef
    /\ Len(wdRun) = 2
    /\ wdRun[1].type = "completed" /\ wdRun[1].pc = "done"
    /\ wdRun[2].type = "error" /\ wdRun[2].pc = "done"
    /\ "handleError" \in wdHandlers
    /\ \E c \in WdPositions(1, "call", "handleComplete"),
          r \in WdPositions(1, "return", "handleComplete"),
          d \in WdPositions(1, "dispatch", "completed"),
          x \in WdPositions(1, "close", "windoid"),
          e \in WdPositions(2, "dispatch", "error") :
            c < e /\ e < r /\ r < d /\ d < x

(***************************************************************************)
(* Claims about I18nProvider.                                              *)
(***************************************************************************)
\* A candidate qualifies when it is a supported locale or its language
\* subtag is one.
LcQualifies(candidate) ==
    \/ candidate \in SUPPORTED_LOCALES
    \/ /\ IntlLocaleParses(candidate)
       /\ IntlLocaleLanguage(candidate) \in SUPPORTED_LOCALES

\* C13: the locale is taken from the first candidate, in the order
\* overrideLocale, document language, Shopify.locale, navigator.languages,
\* that is a supported locale (the result is the candidate) or whose language
\* subtag is a supported locale (the result is that language); when no
\* candidate qualifies, unparsable ones included, the result is 'en'.
C13_FirstQualifyingLocale ==
    lcResult # Undefined =>
        LET all == <<lcInputs.overrideLocale, lcInputs.documentLang,
                     lcInputs.shopifyLocale>> \o lcInputs.languages
            qualifying == {k \in DOMAIN all :
                              all[k] \notin {Undefined, ""} /\ LcQualifies(all[k])}
        IN  IF qualifying = {} THEN lcResult = "en"
            ELSE LET first == CHOOSE k \in qualifying : \A j \in qualifying : k <= j
                 IN  lcResult = IF all[first] \in SUPPORTED_LOCALES THEN all[first]
                                ELSE IntlLocaleLanguage(all[first])

\* An unsupported and an unparsable candidate are passed over, the third
\* candidate gives its language, and a supported later one is not used.
C13_Witness ==
    /\ lcInputs.overrideLocale = "pt-PT"
    /\ lcInputs.documentLang = "en_US"
    /\ lcInputs.shopifyLocale = "en-GB"
    /\ lcInputs.languages = <<"fr">>
    /\ lcResult = "en"
    /\ Len(lcCounters) = 2

\* C14 as stated: when the shared or the feature dictionary of a non-English
\* locale fails to load, that run queues no pending callback, switches the
\* locale to 'en', and loading is not set to false while the locale is still
\* the one whose load fails.
C14_FailedLoadNeverShown ==
    \A i \in DOMAIN ldRuns :
        (ldRuns[i].locale # "en" /\ ldRuns[i].failure # None) =>
            /\ ~ldRuns[i].queued
            /\ ldRuns[i].switched
            /\ ~ldRuns[i].shown

(***************************************************************************)
(* Claims about AuthorizeIframe and LoginIframe.                           *)
(***************************************************************************)
\* modalVisible at the render before render k (Undefined before the first).
MdPreviousRender(k) ==
    IF k = 1 THEN Undefined ELSE mdRenders[k - 1].modalVisible

\* C15: the modal messages, events and onModalVisibleChange are emitted by a
\* render exactly when modalVisible differs from its value at the previous
\* render: a render whose effect re-runs for another dependency emits
\* nothing, and two consecutive emissions are never of the same kind.
C15_NoDuplicatedModalEvents ==
    /\ \A k \in DOMAIN mdRenders :
         /\ mdRenders[k].emitted
                <=> mdRenders[k].modalVisible # MdPreviousRender(k)
         /\ mdRenders[k].emittedUpTo =
                (IF k = 1 THEN 0 ELSE mdRenders[k - 1].emittedUpTo)
                + (IF mdRenders[k].emitted
                   THEN (IF mdState.hasCallback THEN 3 ELSE 2) ELSE 0)
    /\ \A i, j \in DOMAIN mdEmitted :
         (/\ i < j
          /\ mdEmitted[i].what = mdEmitted[j].what
          /\ \A m \in (i + 1)..(j - 1) : mdEmitted[m].what # mdEmitted[i].what)
            => mdEmitted[i].name # mdEmitted[j].name

\* The modal was opened and closed, and in between the effect ran again for
\* loaded without emitting.
C15_Witness ==
    /\ Len(mdRenders) >= 4
    /\ mdState.hasCallback
    /\ mdRenders[2].emitted /\ mdRenders[2].modalVisible = "true"
    /\ mdRenders[3].effectRan /\ ~mdRenders[3].emitted
    /\ mdRenders[4].emitted /\ mdRenders[4].modalVisible = "false"
    /\ Len(mdEmitted) = 9

(***************************************************************************)
(* Claims about the life of a ShopLoginProvider.                           *)
(***************************************************************************)
\* How many actions of a type were dispatched so far, the last one included.
SlCount(type) == Cardinality({k \in DOMAIN slPast : slPast[k] = type})

\* The load-time tracking among the side effects of the last dispatch.
SlLoadTracking ==
    {k \in DOMAIN slEvents :
        \/ slEvents[k].kind \in {"histogram", "log"}
        \/ /\ slEvents[k].kind = "presentationModeChange"
           /\ slEvents[k].reason \in {"user_not_recognized", "user_recognized"}}

\* C16: every iframeLoaded action dispatches the 'loaded' DOM event; the load
\* duration histogram (or the missing-timestamp log) and the load-related
\* presentation-mode-change event are emitted for the first iframeLoaded
\* action of the provider only.
C16_LoadTrackedOnce ==
    /\ (slAction # Null /\ slAction.type = "iframeLoaded") =>
          /\ slEvents # <<>>
          /\ slEvents[1] = DomEvent("loaded",
                               [presentation |-> slState.localPresentationMode,
                                userFound |-> slAction.payload.userFound])
          /\ \A k \in DOMAIN slEvents : k > 1 => slEvents[k].kind # "dispatchEvent"
          /\ IF SlCount("iframeLoaded") = 1
             THEN \E k \in SlLoadTracking : slEvents[k].kind \in {"histogram", "log"}
             ELSE SlLoadTracking = {}
    /\ (slAction # Null /\ slAction.type # "iframeLoaded") => SlLoadTracking = {}

\* A second iframeLoaded, after a resetState, is announced but not tracked.
C16_Witness ==
    /\ slPast = <<"iframeLoaded", "resetState", "iframeLoaded">>
    /\ Len(slEvents) = 1
    /\ slEvents[1].kind = "dispatchEvent"
    /\ slLoadedTracked

\* The 'dismissed' presentation-mode-change events of the last dispatch.
SlDismissedEvents ==
    {k \in DOMAIN slEvents :
        /\ slEvents[k].kind = "presentationModeChange"
        /\ slEvents[k].reason = "dismissed"}

\* C17: a presentation-mode-change event with reason 'dismissed' is emitted
\* by a dismiss action, once, exactly when that action moved
\* localPresentationMode from 'card' to 'button'; a dismiss in 'button' mode
\* emits none and still sets dismissed; no other action emits one.
C17_DismissEventIffCardToButton ==
    /\ (slAction # Null /\ slAction.type = "dismiss") =>
          /\ slState.dismissed
          /\ IF slPrev.localPresentationMode = "card"
                /\ slState.localPresentationMode = "button"
             THEN slEvents = <<ModeChange("button", "card", "dismissed")>>
             ELSE slEvents = <<>>
          /\ slPrev.localPresentationMode = "button" => slEvents = <<>>
    /\ (slAction # Null /\ slAction.type # "dismiss") => SlDismissedEvents = {}

\* A dismiss of a card, and then a dismiss of the button it left.
C17_Witness ==
    /\ Len(slPast) = 3
    /\ slPast[2] = "dismiss" /\ slPast[3] = "dismiss"
    /\ slPrev.localPresentationMode = "button"
    /\ slPrev.dismissed
    /\ slState.dismissed
    /\ slEvents = <<>>

\* C20 as stated: after an iframeLoaded action the mode is 'card' exactly
\* when the presentationMode prop is 'card', userFound is true and dismissed
\* is false; and once a dismiss was dispatched no iframeLoaded action leaves
\* the widget in 'card' mode.
C20_NeverCardAfterDismiss ==
    (slAction # Null /\ slAction.type = "iframeLoaded") =>
        /\ slState.localPresentationMode = "card"
              <=> /\ slProps.presentationMode = "card"
                  /\ slAction.payload.userFound
                  /\ ~slState.dismissed
        /\ SlCount("dismiss") > 0 => slState.localPresentationMode = "button"

\* C20 (amended): after an iframeLoaded action the mode is 'card' exactly
\* when the presentationMode prop is 'card', userFound is true and dismissed
\* is false; hence while dismissed is true, that is after a dismiss and until
\* a resetState, no iframeLoaded action leaves the widget in 'card' mode.
C20_CardIffRecognizedAndNotDismissed ==
    (slAction # Null /\ slAction.type = "iframeLoaded") =>
        /\ slState.localPresentationMode = "card"
              <=> /\ slProps.presentationMode = "card"
                  /\ slAction.payload.userFound
                  /\ ~slPrev.dismissed
        /\ slState.dismissed = slPrev.dismissed
        /\ (\E k \in DOMAIN slPast :
              /\ slPast[k] = "dismiss"
              /\ \A j \in (k + 1)..Len(slPast) : slPast[j] # "resetState")
            => slState.localPresentationMode = "button"

\* A recognized user loads the iframe of a dismissed card widget: button.
C20_Witness ==
    /\ slProps.presentationMode = "card"
    /\ slPast = <<"iframeLoaded", "dismiss", "iframeLoaded">>
    /\ slAction.payload.userFound
    /\ slPrev.dismissed
    /\ slState.localPresentationMode = "button"

(***************************************************************************)
(* Claims about the Modal and Inline surfaces.                             *)
(***************************************************************************)
\* C18: onDismiss is never invoked while modalDismissible is false, whatever
\* the gesture; 'modalDismissible' is dispatched only while the surface is
\* visible and has been visible for 400 ms without interruption; and no timer
\* stays pending once visible has turned false.
C18_NotDismissedBeforeDismissible ==
    /\ \A k \in DOMAIN dsDismissCalls :
         /\ dsDismissCalls[k].modalDismissible
         /\ dsDismissCalls[k].dispatched >= 1
    /\ \A k \in DOMAIN dsDispatched :
         /\ dsDispatched[k].visible
         /\ dsDispatched[k].since # <<>>
         /\ DsMillis(dsDispatched[k].at) - DsMillis(dsDispatched[k].since[1]) >= 400
    /\ dsTimer # <<>> => dsVisible

\* The surface was shown, hidden before the 400 ms were over, shown again and
\* became dismissible 400 ms later; the user then dismissed it.
C18_Witness ==
    /\ dsSurface = "Modal"
    /\ dsChanges >= 2
    /\ Len(dsDispatched) = 1
    /\ dsDispatched[1].since # <<>>
    /\ dsDispatched[1].since[1] > 1
    /\ Len(dsDismissCalls) = 1
    /\ dsDismissCalls[1].method = "keyboard"
    /\ dsAttempts = 2

(***************************************************************************)
(* Claims about callbackRef.                                               *)
(***************************************************************************)
\* C19: iframeRef.current is never overwritten with null: a ref callback with
\* null leaves it unchanged and one with an element stores that element, so
\* once it holds an element it always holds one; and the callback assigns the
\* src attribute, to the src prop, only on the element it was given and only
\* when that element has no src yet.
C19_RefNeverNull ==
    \A k \in DOMAIN crCalls :
        LET call == crCalls[k]
        IN  /\ call.ref = NullRef => call.after = call.before
            /\ call.ref # NullRef => call.after = call.ref
            /\ call.before # NullRef => call.after # NullRef
            /\ k > 1 => call.before = crCalls[k - 1].after
            /\ \A e \in IframeElements :
                 call.attributesAfter[e] # call.attributesBefore[e] =>
                    /\ e = call.ref
                    /\ call.attributesBefore[e] = ""
                    /\ call.attributesAfter[e] = call.src

\* An element was stored and given its src, a callback with null followed,
\* and an element that already had a src was stored without touching it.
C19_Witness ==
    /\ Len(crCalls) = 3
    /\ crCalls[1].ref = 2 /\ crCalls[1].attributesBefore[2] = ""
    /\ crCalls[1].attributesAfter[2] = "url2"
    /\ crCalls[2].ref = NullRef /\ crCalls[2].after = 2
    /\ crCalls[3].ref = 1 /\ crCalls[3].attributesBefore[1] = "url1"
    /\ crCalls[3].src = "url2"
    /\ crCurrent = 1
    /\ crAttributes[1] = "url1"

(***************************************************************************)
(* Claims about the order of the iframe's events.                          *)
(***************************************************************************)
\* The fields of the ShopLogin state that an iframeLoaded and a userMatched
\* action decide.
SlDecided(state) ==
    [localPresentationMode |-> state.localPresentationMode,
     matched |-> state.matched, cookied |-> state.cookied]

\* C21: for a widget that is not dismissed, the state reached after one
\* iframeLoaded and one userMatched action (its localPresentationMode,
\* matched and cookied fields) is the same in both orders of the two actions.
C21_LoadedAndMatchedCommute ==
    ~slState.dismissed =>
        \A loaded \in {a \in ShopLoginActionInputs : a.type = "iframeLoaded"} :
          \A userMatched \in {a \in ShopLoginActionInputs : a.type = "userMatched"} :
            LET mode == slProps.presentationMode
                loadedFirst ==
                    reducerWithDispatchedEventing(
                        reducerWithDispatchedEventing(slState, loaded, mode, now),
                        userMatched, mode, now)
                matchedFirst ==
                    reducerWithDispatchedEventing(
                        reducerWithDispatchedEventing(slState, userMatched, mode, now),
                        loaded, mode, now)
            IN  SlDecided(loadedFirst) = SlDecided(matchedFirst)

(***************************************************************************)
(* Claims about the presentation-mode-change events.                       *)
(***************************************************************************)
\* C25: every presentation-mode-change event that an action (iframeLoaded,
\* userMatched or dismiss) makes the provider emit reports as previousMode
\* the localPresentationMode before the action and as currentMode the
\* localPresentationMode after it.
C25_ModeChangeReportsTheStates ==
    \A k \in DOMAIN slEvents :
        slEvents[k].kind = "presentationModeChange" =>
            /\ slAction.type \in {"iframeLoaded", "userMatched", "dismiss"}
            /\ slEvents[k].previousMode = slPrev.localPresentationMode
            /\ slEvents[k].currentMode = slState.localPresentationMode

(***************************************************************************)
(* Further claims about the Bugsnag onError filter.                        *)
(***************************************************************************)
\* C22: onError lets an event through (does not return false) exactly when
\* its first exception exists, has an in-project stack frame, is not a
\* sandboxed-cookie SecurityError, is not a cross-origin-frame SecurityError
\* raised in one of the three ShopPayPaymentRequest features, has an
\* errorClass outside the unactionable list, and is neither a dynamic import
\* error nor a network error; onNetworkError is called at most once per event.
C22_LetThroughExactlyWhenActionable ==
    bgReturn # "pending" =>
        /\ bgReturn # "false" <=>
              IF bgEvent = <<>> THEN FALSE
              ELSE ~BgFilteredFirst /\ ~BgDynamicImportFirst /\ ~BgNetworkFirst
        /\ bgDecorated <=> bgReturn # "false"
        /\ Len(bgNetCalls) <= 1
        /\ Len(bgCounters) = Len(bgNetCalls)

\* An in-project cross-origin-frame SecurityError raised in a feature that is
\* not a ShopPayPaymentRequest one was let through.
C22_Witness ==
    /\ BgHandled
    /\ bgFeature = "ShopLogin"
    /\ bgEvent[1].errorClass = "SecurityError"
    /\ bgEvent[1].message.text =
          <<"Blocked a frame with origin", "from accessing a cross-origin frame">>
    /\ bgEvent[1].stacktrace = <<[inProject |-> FALSE], [inProject |-> TRUE]>>
    /\ bgReturn = Undefined
    /\ bgDecorated
    /\ bgNetCalls = <<>>

(***************************************************************************)
(* Claims about importWithRetry and its AbortSignal.                       *)
(***************************************************************************)
\* C23: once the signal is aborted no new attempt is started (neither the
\* importer nor retryImport) and the returned promise never rejects: it
\* resolves to undefined, or to the module when an attempt already in flight
\* succeeds.  With a signal aborted before the call the importer is never
\* invoked.
C23_AbortStopsRetrying ==
    [][imAborted =>
          /\ imAttempts' = imAttempts
          /\ imLastAttempt' = imLastAttempt
          /\ imResult'.kind # "rejected"
          /\ imResult' # imResult =>
                \/ imResult' = Resolved(Undefined)
                \/ imResult' = Resolved("module") /\ imPc = "inflight"]_vars

\* The first attempt failed with an Error the code retries, retries were
\* left, the signal was aborted while the retry timer ran, and the promise
\* resolved to undefined without a second attempt.
C23_Witness ==
    /\ imAborted
    /\ imCfg.maxRetries >= 2
    /\ ImRetryableFailure
    /\ ~imLastError.aborted
    /\ imAttempts = 1
    /\ imPc = "done"
    /\ imResult = Resolved(Undefined)

(***************************************************************************)
(* Claims about the promise ExporterWithRetries returns.                   *)
(***************************************************************************)
\* C24: the promise returned by exportMetrics / exportLogs (that of the first
\* invocation) reflects the outcome of the last attempt: it resolves only if
\* some attempt of the wrapped exporter succeeded, and when a retried attempt
\* finally fails without retryAfter it rejects with that error.
C24_PromiseReflectsLastAttempt ==
    exCalls # <<>> =>
        LET first == exCalls[1]
            last == exCalls[Len(exCalls)]
        IN  /\ first.status = "resolved" =>
                  \E i \in DOMAIN exCalls :
                      exCalls[i].status = "resolved" /\ exCalls[i].error = Null
            /\ (Len(exCalls) > 1 /\ last.status = "rejected") =>
                  /\ first.status = "rejected"
                  /\ first.error = last.error

====
